---- MODULE Spec2Model ----
(***************************************************************************)
(* Shot interpreter of the CUNQA platform: the cooperative scheduler of    *)
(* execute_shot_ and the remote-operation state machines QSEND / QRECV /   *)
(* EXPOSE / RCONTROL, as implemented by the simulator adapters             *)
(* (cunqa_simulator_adapter.cpp; aer_simulator_adapter.cpp schedules the   *)
(* same way; munich_simulator_adapter.cpp differs in EXPOSE and RCONTROL). *)
(*                                                                         *)
(* Measurement outcomes are kept symbolically: a value on a qc_meas stack  *)
(* names the measurement that produced it (its kind, the measuring task    *)
(* and the cursor of that task), and a gate applied under `if (meas)` is   *)
(* recorded with the value it is conditioned on.  Nothing in the scheduler *)
(* branches on the bit itself.  The specifications that follow the state   *)
(* vector of the executor replay the recorded calls on it and give every   *)
(* recorded measurement its bit.                                           *)
(***************************************************************************)
EXTENDS Integers, Sequences, FiniteSets, TLC

(* ------------------------------ bounds --------------------------------- *)

\* longest circuit of a task in the batches explored
MaxLen == 2

\* largest num_qubits and num_clbits of a task in the batches explored
MaxBits == 2

\* largest config.shots of the simulations explored
MaxShots == 2

\* how many messages a peer sends over the classical channel
MaxMsgs == 2

\* how many operations on the registry file a process makes
MaxOps == 2

\* how many times a QPU calls execute
MaxRounds == 2

(* ------------------------------ inputs --------------------------------- *)

\* ids of the quantum tasks of a batch (QuantumTask::id)
TaskIds == {"A", "B"}

NoQpu == "-"

\* an instruction of a circuit: its name, qpus[0], its nested instructions, and
\* the fields qubits, clbits, l_clbits, r_clbits (indices counted from 0)
Instr(name, qpu, body) ==
    [name |-> name, qpu |-> qpu, instructions |-> body,
     qubits |-> <<0>>, clbits |-> <<>>, l_clbits |-> <<>>, r_clbits |-> <<>>]

\* measure of qubit q into classical bit c
MeasureInstr(q, c) ==
    [Instr("measure", NoQpu, <<>>) EXCEPT !.qubits = <<q>>, !.clbits = <<c>>]

\* copy of the classical bits r onto the classical bits l
CopyInstr(l, r) ==
    [Instr("copy", NoQpu, <<>>) EXCEPT !.l_clbits = l, !.r_clbits = r]

\* send of the classical bits clbits to the endpoint p
SendInstr(p, clbits) ==
    [Instr("send", p, <<>>) EXCEPT !.clbits = clbits]

\* the nested instructions body, run if the classical bit c is set
CifInstr(c, body) ==
    [Instr("cif", NoQpu, body) EXCEPT !.clbits = <<c>>]

\* a name INSTRUCTIONS_MAP does not hold
UnknownName == "foo"

\* the names INSTRUCTIONS_MAP holds for which the switch of the Cunqa adapter has
\* no case; one of them stands for all
UnsupportedNames == {"p"}

\* the config of a quantum task
Config(q, c) == [num_qubits |-> q, num_clbits |-> c]

\* instructions nested in an RCONTROL of task t: a local gate or a receive
NestedInstrs(t, ids) ==
    {Instr("x", NoQpu, <<>>)}
    \cup {Instr("qrecv", p, <<>>) : p \in ids \ {t}}

\* instructions of a circuit of task t: a local gate, or a remote operation
\* whose peer qpus[0] is another task of the batch
Instrs(t, ids) ==
    {Instr("x", NoQpu, <<>>)}
    \cup {Instr(n, p, <<>>) : n \in {"qsend", "qrecv", "expose"}, p \in ids \ {t}}
    \cup {Instr("rcontrol", p, <<b>>) : p \in ids \ {t}, b \in NestedInstrs(t, ids)}

\* non-empty circuits of task t of at most MaxLen instructions
Circuits(t, ids) == UNION {[1..n -> Instrs(t, ids)] : n \in 1..MaxLen}

\* the batches over the task ids
Batches(ids) ==
    {c \in [ids -> UNION {Circuits(t, ids) : t \in ids}] :
        \A t \in ids : c[t] \in Circuits(t, ids)}

\* the remote operations task t can address to the other tasks of the batch, an
\* RCONTROL nesting one local gate
RemoteInstrs(t, ids) ==
    {Instr(n, p, <<>>) : n \in {"qsend", "qrecv", "expose"}, p \in ids \ {t}}
    \cup {Instr("rcontrol", p, <<Instr("x", NoQpu, <<>>)>>) : p \in ids \ {t}}

\* instructions of the circuits whose state vector is followed: the gates x and h,
\* and the remote operations
QInstrs(t, ids) == {Instr("x", NoQpu, <<>>), Instr("h", NoQpu, <<>>)} \cup RemoteInstrs(t, ids)

\* batches of two tasks of one qubit over these instructions, of at most len
\* instructions per task
BatchesQ(len) ==
    {[t \in TaskIds |-> IF t = "A" THEN a ELSE b] :
        a \in UNION {[1..n -> QInstrs("A", TaskIds)] : n \in 1..len},
        b \in UNION {[1..n -> QInstrs("B", TaskIds)] : n \in 1..len}}

\* ids of a batch of three quantum tasks
TaskIds3 == {"A", "B", "C"}

\* batches of three tasks made of remote operations only: the first task has one
\* or two instructions, the other two have one
Batches3 ==
    {[t \in TaskIds3 |-> CASE t = "A" -> a [] t = "B" -> b [] OTHER -> c] :
        a \in UNION {[1..n -> RemoteInstrs("A", TaskIds3)] : n \in {1, 2}},
        b \in [1..1 -> RemoteInstrs("B", TaskIds3)],
        c \in [1..1 -> RemoteInstrs("C", TaskIds3)]}

\* ids of a batch of four quantum tasks, two independent pairs A, B and C, D
TaskIds4 == {"A", "B", "C", "D"}

\* the other task of the pair of t
PairOf(t) == CASE t = "A" -> "B" [] t = "B" -> "A" [] t = "C" -> "D" [] OTHER -> "C"

\* batches of four tasks: every task has one remote operation toward the other
\* task of its pair
Batches4 ==
    {c \in [TaskIds4 -> UNION {[1..1 -> RemoteInstrs(t, {t, PairOf(t)})] : t \in TaskIds4}] :
        \A t \in TaskIds4 : c[t][1].qpu = PairOf(t)}

\* a gate of two qubits: qubits[0] is c, the control of a controlled gate (-1 for
\* the communication qubit), qubits[1] is q
TwoQubitInstr(name, c, q) == [Instr(name, NoQpu, <<>>) EXCEPT !.qubits = <<c, q>>]

\* a gate on the first qubit of the task
XGate == Instr("x", NoQpu, <<>>)

\* batches of three tasks in which the first opens a cat region: it has an EXPOSE
\* and at most one more remote operation, the second a local gate before its
\* remote operation, the third one remote operation
BatchesExpose3 ==
    {[t \in TaskIds3 |-> CASE t = "A" -> a [] t = "B" -> <<XGate, b>> [] OTHER -> <<c>>] :
        a \in {<<Instr("expose", p, <<>>)>> : p \in {"B", "C"}}
              \cup {<<Instr("expose", p, <<>>), i>> :
                       p \in {"B", "C"}, i \in RemoteInstrs("A", TaskIds3)},
        b \in RemoteInstrs("B", TaskIds3),
        c \in RemoteInstrs("C", TaskIds3)}

\* the configs of a task
Configs == {Config(q, c) : q \in 1..MaxBits, c \in 0..MaxBits}

\* inputs of three tasks of any config: the first task has no, one or two gates,
\* the other two have one
SetupInputs ==
    {[circuit |-> [t \in TaskIds3 |-> IF t = "A" THEN a ELSE <<XGate>>], config |-> g] :
        a \in {<<>>, <<XGate>>, <<XGate, XGate>>}, g \in [TaskIds3 -> Configs]}

\* the measures of a task of q qubits and c classical bits
Measures(q, c) == {MeasureInstr(i, k) : i \in 0..(q - 1), k \in 0..(c - 1)}

\* lists of at most two classical bits of a register of c bits
ClbitLists(c) == UNION {[1..n -> 0..(c - 1)] : n \in 0..2}

\* local instructions of a task of q qubits and c classical bits
LocalInstrs(q, c) ==
    {XGate} \cup Measures(q, c)
    \cup {CopyInstr(l, r) : l \in ClbitLists(c), r \in ClbitLists(c)}

\* circuits of at most one measure
ShortCircuits(q, c) == {<<>>} \cup {<<i>> : i \in Measures(q, c)}

\* circuits of at most two instructions of the set instrs, a gate or a measure
\* before the last
LocalCircuits(q, c, instrs) ==
    {<<>>} \cup {<<j>> : j \in instrs}
    \cup {<<i, j>> : i \in {XGate} \cup Measures(q, c), j \in instrs}

\* the inputs of two tasks A, B with the configs ga, gb and circuits among as, bs
InputsOf(ga, gb, as, bs) ==
    {[circuit |-> [t \in TaskIds |-> IF t = "A" THEN a ELSE b],
      config |-> [t \in TaskIds |-> IF t = "A" THEN ga ELSE gb]] : a \in as, b \in bs}

\* inputs of two tasks of one qubit and at most bits classical bits made of local
\* instructions: a short circuit for the first task, gates, measures and copies
\* for the second
LocalInputs(bits) ==
    UNION {InputsOf(Config(1, ca), Config(1, cb), ShortCircuits(1, ca),
                    LocalCircuits(1, cb, LocalInstrs(1, cb))) :
             ca \in 0..bits, cb \in 0..bits}

\* inputs of two tasks for the Maestro adapter, which has no COPY: gates and
\* measures, the configs of the tasks among configs
MaestroInputs(configs) ==
    UNION {InputsOf(ga, gb, ShortCircuits(ga.num_qubits, ga.num_clbits),
                    LocalCircuits(gb.num_qubits, gb.num_clbits,
                                  {XGate} \cup Measures(gb.num_qubits, gb.num_clbits))) :
             ga \in configs, gb \in configs}

\* inputs of a simulation: two tasks of one qubit and one classical bit, the first
\* measures its qubit as it is, flipped or after h, the second has one or two
\* local instructions
SimInputs ==
    InputsOf(Config(1, 1), Config(1, 1),
             {<<MeasureInstr(0, 0)>>, <<XGate, MeasureInstr(0, 0)>>,
              <<Instr("h", NoQpu, <<>>), MeasureInstr(0, 0)>>},
             LocalCircuits(1, 1, LocalInstrs(1, 1)) \ {<<>>})

\* the bodies of a CIF or an RCONTROL of task A: two nested instructions, each a
\* local gate or a receive from B
NestedBodies == [1..2 -> NestedInstrs("A", TaskIds)]

\* batches of two tasks where A ends on a CIF or is an RCONTROL, and B has local
\* gates and the remote operations that unblock A
NestedBatches ==
    {[t \in TaskIds |-> IF t = "A" THEN a ELSE b] :
        a \in UNION {{<<XGate, MeasureInstr(0, 0), CifInstr(0, body)>>,
                      <<MeasureInstr(0, 0), CifInstr(0, body)>>,
                      <<Instr("rcontrol", "B", body)>>} : body \in NestedBodies},
        b \in UNION {[1..n -> {XGate, Instr("qsend", "A", <<>>),
                               Instr("expose", "A", <<>>)}] : n \in 1..3}}

\* an endpoint the channel of the executor has no socket for
NoEndpoint == "Z"

\* instructions of the first task of a simulation that meets errors: a gate, a
\* measure, a send to the other task or to an endpoint without a socket, an
\* instruction of a name the opcode map does not hold, one the switch has no case for
ErrInstrs ==
    {XGate, MeasureInstr(0, 0), SendInstr("B", <<0>>), SendInstr(NoEndpoint, <<0>>),
     Instr(UnknownName, NoQpu, <<>>)}
    \cup {Instr(n, NoQpu, <<>>) : n \in UnsupportedNames}

\* inputs of a simulation that meets errors: two tasks of one qubit and one
\* classical bit, the first of one or two instructions, the second a gate and a
\* measure or a measure alone
ErrInputs ==
    InputsOf(Config(1, 1), Config(1, 1),
             UNION {[1..n -> ErrInstrs] : n \in {1, 2}},
             {<<MeasureInstr(0, 0)>>, <<XGate, MeasureInstr(0, 0)>>})

\* the peers that send to the channel that is followed, by zmq identity
Senders == {"A", "C"}

\* the processes that use the registry file
Procs == {"P", "Q"}

\* SLURM_JOB_ID of a process: the job id of P is the beginning of that of Q
JobId(p) == IF p = "P" THEN <<"1">> ELSE <<"1", "2">>

\* SLURM_TASK_PID of a process
LocalId(p) == IF p = "P" THEN <<"7">> ELSE <<"8">>

\* the keys of the registry in the order of std::map<std::string>: "12_8" < "1_7"
\* < "3_9" ('2' is before '_')
KeyOrder == <<<<"1", "2", "_", "8">>, <<"1", "_", "7">>, <<"3", "_", "9">>>>

\* the registries the file holds at the start: none (the file is created empty),
\* an entry of another job, an entry per key
Registries ==
    {<<>>, (KeyOrder[3] :> "e0"), [k \in {KeyOrder[i] : i \in 1..3} |-> "e0"]}

\* the arguments of erase_key: a job id
RmKeys == {JobId(p) : p \in Procs}

\* the registry operations of a process
RegOps(p) ==
    {[name |-> "write_on_file", data |-> "e" \o p, rm_key |-> <<>>],
     [name |-> "read_from_file", data |-> "", rm_key |-> <<>>]}
    \cup {[name |-> "remove_from_file", data |-> "", rm_key |-> J] : J \in RmKeys}

\* a gate with its parameters, as the instructions of a decoded circuit hold them
GateInstr(name, params) == [name |-> name, qubits |-> <<0>>, params |-> params]

\* instructions of the circuits of the codec: a gate without parameter, the
\* rotations of one parameter on one and on two qubits, a gate of three parameters
CodecInstrs ==
    {GateInstr("x", <<>>), GateInstr("rx", <<0>>), GateInstr("crx", <<0>>),
     GateInstr("u3", <<0, 0, 0>>)}

\* circuits of at most len instructions, the empty one included
CodecCircuits(len) == UNION {[1..n -> CodecInstrs] : n \in 0..len}

\* the quantum tasks of id A over these circuits
QuantumTasks(len) ==
    {[id |-> "A", config |-> [num_qubits |-> 1, num_clbits |-> 1, shots |-> 1],
      circuit |-> c, sending_to |-> st, is_dynamic |-> d] :
        c \in CodecCircuits(len), st \in {<<>>, <<"B">>}, d \in BOOLEAN}

\* an element of a JSON array that is not a string
NotAString == "#number"

\* the tasks an update_circuit finds: none sent yet, or a circuit sent before,
\* whose instructions may have a name INSTRUCTIONS_MAP does not hold
UpdatedTasks(len) ==
    {[id |-> "A", config |-> cf, circuit |-> c, sending_to |-> st, is_dynamic |-> d] :
        cf \in {[num_qubits |-> 1, num_clbits |-> 1, shots |-> 1]},
        c \in UNION {[1..n -> CodecInstrs \cup {GateInstr(UnknownName, <<>>)}] : n \in 0..len},
        st \in {<<>>, <<"B">>}, d \in BOOLEAN}

\* the documents sent to update_circuit: a task document, with or without
\* sending_to, whose sending_to may hold a number; a document of parameters; a
\* document with neither
UpdateDocuments(len) ==
    {[id |-> "A", config |-> [num_qubits |-> 1, num_clbits |-> 1, shots |-> 2],
      instructions |-> <<GateInstr("x", <<>>)>>] @@ st :
        st \in {<<>>, [sending_to |-> <<"B">>], [sending_to |-> <<NotAString>>]}}
    \cup {[params |-> ps] : ps \in {[i \in 1..k |-> i] : k \in 0..len}}
    \cup {[id |-> "A"]}

\* the values of a parameter update: k new values, k up to len
ParamLists(len) == {[i \in 1..k |-> i] : k \in 0..len}

\* qpu_ids of the executor: the keys of the QPUs of the job, in key order
qpu_ids == <<"A", "B">>

\* the QPUs of the executor
Qpus == {qpu_ids[i] : i \in DOMAIN qpu_ids}

\* the task a QPU is given: of an empty circuit, of a gate, of an instruction the
\* opcode map does not hold
QpuTasks(p) ==
    {[id |-> p, config |-> [num_qubits |-> 1, num_clbits |-> 1, shots |-> 1],
      circuit |-> c, sending_to |-> <<>>, is_dynamic |-> FALSE] :
        c \in {<<>>, <<GateInstr("x", <<>>)>>, <<GateInstr(UnknownName, <<>>)>>}}

\* the gates whose first qubit is a control
ControlledNames == {"cx", "cy", "cz", "crx", "cry", "crz"}

\* the local gates of a task of two qubits: x on either, a swap of the two, and
\* cx, crx with the control on the other qubit or on the sentinel -1
GateInstrs ==
    {[XGate EXCEPT !.qubits = <<q>>] : q \in 0..1}
    \cup {TwoQubitInstr("swap", 1 - q, q) : q \in 0..1}
    \cup UNION {{TwoQubitInstr(n, c, q) : n \in {"cx", "crx"}, c \in {-1, 0, 1} \ {q}} :
                   q \in 0..1}

\* inputs of two tasks of two qubits: one local gate for the first task, one to
\* len for the second
GateInputs(len) ==
    InputsOf(Config(2, 0), Config(2, 0), {<<g>> : g \in GateInstrs},
             UNION {[1..n -> GateInstrs] : n \in 1..len})

\* SLURM_JOB_ID of the executor and of its QPUs, and that of another job
JobOfExecutor == "12"

OtherJob == "13"

\* SLURM_TASK_PID of the executor process: the process id srun gives its task
PidOfExecutor == "4077"

\* what the registry file holds when the job starts: the entries of the QPUs of
\* another job that are up
FilesAtStart == SUBSET {[job |-> OtherJob, local |-> p] : p \in {"A", "B"}}

\* an id that is not the id of a task of the batch
UnknownPeer == "Z"

\* instructions of task t whose peer is the other task or no task of the batch
PeerInstrs(t) ==
    {XGate}
    \cup {Instr(n, p, <<>>) : n \in {"qsend", "qrecv", "expose"},
                              p \in (TaskIds \ {t}) \cup {UnknownPeer}}
    \cup {Instr("rcontrol", p, <<XGate>>) : p \in (TaskIds \ {t}) \cup {UnknownPeer}}

\* batches of two tasks over these instructions: at most len for the first task,
\* one for the second
BatchesPeers(len) ==
    {[t \in TaskIds |-> IF t = "A" THEN a ELSE <<b>>] :
        a \in UNION {[1..n -> PeerInstrs("A")] : n \in 1..len},
        b \in PeerInstrs("B")}

\* the orders in which a range-for over the unordered_map Ts can visit the tasks
Orders(ids) ==
    {o \in [1..Cardinality(ids) -> ids] : \A t \in ids : \E i \in DOMAIN o : o[i] = t}

(* ------------------------------- state --------------------------------- *)

VARIABLES
    adapter,        \* which adapter's execute_shot_ runs: "Cunqa", "Munich", "Maestro"
    circuit,        \* quantum_tasks[i].circuit, by task id
    config,         \* quantum_tasks[i].config: num_qubits and num_clbits, by task id
    si,             \* position of the setup loop inside quantum_tasks
    zero_qubit,     \* TaskState::zero_qubit
    zero_clbit,     \* TaskState::zero_clbit
    n_qubits,       \* GlobalState::n_qubits
    n_clbits,       \* GlobalState::n_clbits
    creg,           \* GlobalState::creg (classic_reg of the Maestro adapter)
    classic_values, \* classic_values of the Maestro adapter
    result_bits,    \* the string execute_shot_ returns, once returned
    written,        \* history: the value last written to each classical bit of the
                    \* batch, by its global index (clbit + zero_clbit of the task)
    order,          \* iteration order of Ts
    it,             \* TaskState::it, as an index into the circuit (end = Len + 1)
    finished,       \* TaskState::finished
    blocked,        \* TaskState::blocked
    cat_entangled,  \* TaskState::cat_entangled
    qc_meas,        \* GlobalState::qc_meas: task id -> stack (top = last element)
    ended,          \* GlobalState::ended
    pc,             \* position of execute_shot_: "setup", "while", "for", "returned",
                    \* "failed" (left by an exception), "crashed"
    pos,            \* position of the range-for inside order
    result,         \* how execute_shot_ ended: "none", then "result_bits" or the
                    \* exception thrown
    klog,           \* the latest dispatch: task, instruction, executor and stack calls
    nested,         \* history: the nested instructions each task has dispatched in
                    \* the shot, as pairs <<cursor of the task, how many nested
                    \* instructions of the enclosing one were still to run>>
    psi,            \* the state vector of the executor, by basis state (<<>> where
                    \* the specification does not follow it)
    outcome,        \* the bit each measurement of the shot returned
    sent,           \* history: the reduced state of q before each QSEND
    received,       \* history: the reduced state of r after each QRECV
    shots,          \* config.shots of simulate
    shot,           \* the loop variable i of simulate
    meas_counter,   \* meas_counter of simulate: bitstring -> count
    registry,       \* the registry file and the processes that use it: text (the
                    \* bytes of the file), lock (the fcntl lock each process holds),
                    \* pc, op, j (the position, the operation and the local j of
                    \* each process), ops (how many operations it has made);
                    \* history: seen (what each read_from_file returned), removed
                    \* (what each remove_from_file read and wrote), waited (the
                    \* file was truncated while the process asked for its lock)
    codec,          \* a QuantumTask and its encodings: task, text (what to_string or
                    \* a client wrote), decoded (the outcome of update_circuit: the
                    \* task, the exception thrown, whether the process ended),
                    \* params (the values of the latest update), pc
    broker,         \* a CunqaExecutor in run and its QPUs: pc, i (the position of
                    \* the loop over qpu_ids), k (that of the loop over
                    \* qpus_working), qpus_working, quantum_tasks, result_str, inbox
                    \* (the messages of each QPU not yet received), outbox (the
                    \* results sent to each QPU it has not yet received), qpu (per
                    \* QPU: waiting for a result or not, how many execute calls);
                    \* history: round, sent (the messages of each QPU), results
                    \* (the results sent to each QPU, with the round), rounds
                    \* (qpus_working, quantum_tasks and the result of each round)
    startup,        \* the constructors of a CunqaExecutor and of its QPUs: file (the
                    \* keys of the registry file), pc, ids, i and communications of
                    \* the executor, and per QPU its pc, the ready markers sent to
                    \* it and not yet received, its communications; history:
                    \* published (the file held an entry of the executor when the
                    \* ready marker of the QPU was sent), lookup (how the lookup of
                    \* the QPU ended)
    channel         \* a ClassicalChannel::Impl and the sockets that reach it: pipe
                    \* (the frames each peer has sent that zmq_comm_server has not
                    \* yet handed over), message_queue, origin (the argument of the
                    \* recv inside its while loop, NoQpu outside); history: sends
                    \* (how many messages each peer has sent), returned (what the
                    \* recv calls have returned, each with its origin)

\* the inputs of the shot and what the setup loop computes from them
setupVars == <<config, si, zero_qubit, zero_clbit, n_qubits, n_clbits>>

\* the classical side of the shot
cregVars == <<creg, classic_values, result_bits, written>>

\* the quantum side of the shot
qVars == <<psi, outcome, sent, received>>

\* the locals of simulate
simVars == <<shots, shot, meas_counter>>

\* the state of execute_shot_ and simulate
shotVars == <<adapter, circuit, order, it, finished, blocked, cat_entangled,
              qc_meas, ended, pc, pos, result, klog, nested, setupVars, cregVars, qVars,
              simVars>>

\* the state of the components around the shot
sysVars == <<channel, registry, codec, broker, startup>>

vars == <<shotVars, sysVars>>

\* the tasks of the batch (the keys of Ts)
Tasks == DOMAIN circuit

\* the ids of quantum_tasks in the order of the vector: the ids are inserted
\* in alphabetical order
quantum_tasks == SelectSeq(<<"A", "B", "C", "D">>, LAMBDA t : t \in Tasks)

\* TaskState::end
End(t) == Len(circuit[t]) + 1

(* --------------------- std::unordered_map / std::stack ----------------- *)

\* G.qc_meas.contains(key)
Contains(qc, key) == key \in DOMAIN qc

\* G.qc_meas[key]: operator[] inserts an empty stack for an absent key
At(qc, key) == IF key \in DOMAIN qc THEN qc
               ELSE [k \in DOMAIN qc \cup {key} |-> IF k = key THEN <<>> ELSE qc[k]]

\* G.qc_meas.erase(key)
Erase(qc, key) == [k \in DOMAIN qc \ {key} |-> qc[k]]

\* a measurement outcome: the measurement of the given kind made by task src while
\* its cursor stood at index at.  Kinds: "data" and "anc" (QSEND, of q and of n-2),
\* "cat" (EXPOSE), "rc" (RCONTROL), "ent1", "ent2" and "reset" (outcomes used only
\* to flip a communication qubit back)
Val(kind, src, at) == [kind |-> kind, src |-> src, at |-> at]

\* what top() of an empty stack reads
Garbage == Val("garbage", NoQpu, 0)

\* the condition recorded with a call that is not under an if
Always == Val("always", NoQpu, 0)

\* one call made by a dispatch: a stack or executor call ev on key, under the
\* condition cond; val holds the qubits of a gate, or the values an erase discards
Call(ev, key, val, cond) == [ev |-> ev, key |-> key, val |-> val, cond |-> cond]

\* G.qc_meas[key].push(v)
Push(s, key, v) ==
    LET qc == At(s.qc, key) IN
    [s EXCEPT !.qc = [qc EXCEPT ![key] = Append(@, v)],
              !.log = Append(@, Call("push", key, <<>>, v))]

\* v = G.qc_meas[key].top(); G.qc_meas[key].pop(): the value is left in s.top.
\* top() and pop() of an empty std::stack are undefined: the value read is
\* garbage, the stack is taken to stay empty and s.ub records the event.
Pop(s, key) ==
    LET qc == At(s.qc, key) IN
    IF qc[key] # <<>>
    THEN LET v == qc[key][Len(qc[key])] IN
         [s EXCEPT !.qc = [qc EXCEPT ![key] = SubSeq(@, 1, Len(@) - 1)],
                   !.top = v,
                   !.log = Append(@, Call("pop", key, <<>>, v))]
    ELSE [s EXCEPT !.qc = qc,
                   !.top = Garbage,
                   !.ub = TRUE,
                   !.log = Append(@, Call("pop_empty", key, <<>>, Garbage))]

(* -------------------------------- std::map ----------------------------- *)

\* G.creg[k] as a read: operator[] inserts false for an absent key
CregAt(reg, k) == IF k \in DOMAIN reg THEN reg ELSE reg @@ (k :> FALSE)

\* G.creg[k] = v
Store(reg, k, v) == [CregAt(reg, k) EXCEPT ![k] = v]

(* ------------------------------ executor ------------------------------- *)

\* executor.apply_gate(name, qubits): recorded, Replay applies it to the state vector
Gate(s, name, qubits) ==
    [s EXCEPT !.log = Append(@, Call("gate", name, qubits, Always))]

\* if (v) executor.apply_gate(name, qubits)
GateIf(s, v, name, qubits) ==
    [s EXCEPT !.log = Append(@, Call("gate_if", name, qubits, v))]

\* executor.apply_measure(qubit): the outcome is left in s.top
Measure(s, qubit, kind, src) ==
    LET v == Val(kind, src, it[src]) IN
    [s EXCEPT !.top = v, !.log = Append(@, Call("measure", qubit, <<>>, v))]

(* --------------------------- apply_next_instr -------------------------- *)

\* the outcomes executor.apply_measure can return to a MEASURE instruction
Outcomes(inst) == IF inst.name = "measure" THEN {"m0", "m1"} ELSE {"m0"}

\* case MEASURE: the outcome goes to G.creg at the clbit of the task; the Maestro
\* adapter stores it in classic_values at the index of the qubit, and in
\* classic_reg at clreg[0] without the offset of the task
ApplyMeasure(s, t, inst) ==
    LET s1 == Measure(s, "q", s.meas, t)
        measurement == s1.top.kind = "m1"
        s2 == [s1 EXCEPT !.written = Store(@, inst.clbits[1] + zero_clbit[t], measurement)]
    IN  IF adapter = "Maestro"
        THEN [s2 EXCEPT
                !.classic_values = Store(@, inst.qubits[1] + zero_qubit[t], measurement),
                !.creg = IF inst.clbits # <<>> THEN Store(@, inst.clbits[1], measurement)
                         ELSE @]
        ELSE [s2 EXCEPT !.creg = Store(@, inst.clbits[1] + zero_clbit[t], measurement)]

RECURSIVE CopyLoopSwapped(_, _, _, _, _)

\* CopyLoop with the two sides of the assignment exchanged: G.creg[r[i] + zero] =
\* G.creg[l[i] + zero]
CopyLoopSwapped(reg, zero, l, r, i) ==
    IF i > Len(l) THEN reg
    ELSE LET read == CregAt(reg, l[i] + zero) IN
         CopyLoopSwapped(Store(read, r[i] + zero, read[l[i] + zero]), zero, l, r, i + 1)

RECURSIVE CopyLoop(_, _, _, _, _)

\* for (i = 0; i < l_clbits.size(); ++i) G.creg[l[i] + zero] = G.creg[r[i] + zero],
\* from the i-th pair on
CopyLoop(reg, zero, l, r, i) ==
    IF i > Len(l) THEN reg
    ELSE LET read == CregAt(reg, r[i] + zero) IN
         CopyLoop(Store(read, l[i] + zero, read[r[i] + zero]), zero, l, r, i + 1)

\* ApplyCopy without the test of the sizes: a COPY of lists of different sizes
\* copies nothing and raises nothing
ApplyCopyUnchecked(s, t, inst) ==
    IF Len(inst.l_clbits) # Len(inst.r_clbits)
    THEN s
    ELSE [s EXCEPT !.creg = CopyLoop(@, zero_clbit[t], inst.l_clbits, inst.r_clbits, 1),
                   !.written = CopyLoop(@, zero_clbit[t], inst.l_clbits, inst.r_clbits, 1)]

\* case COPY
ApplyCopy(s, t, inst) ==
    IF Len(inst.l_clbits) # Len(inst.r_clbits)
    THEN [s EXCEPT !.thrown = "runtime_error"]
    ELSE [s EXCEPT !.creg = CopyLoop(@, zero_clbit[t], inst.l_clbits, inst.r_clbits, 1),
                   !.written = CopyLoop(@, zero_clbit[t], inst.l_clbits, inst.r_clbits, 1)]

\* Ts[inst.at("qpus")[0]].blocked = false: operator[] of the unordered_map inserts
\* a default TaskState for a key Ts does not hold (the keys of Ts are the domain
\* of blocked)
Unblock(s, peer) ==
    IF peer \in DOMAIN s.blocked THEN [s EXCEPT !.blocked[peer] = FALSE]
    ELSE [s EXCEPT !.blocked = (peer :> FALSE) @@ @]

\* T.blocked = true; return
Block(s, t) == [s EXCEPT !.blocked[t] = TRUE]

\* H(n-2); CX(n-2, n-1)
Entangle(s) == Gate(Gate(s, "h", <<"n-2">>), "cx", <<"n-2", "n-1">>)

\* generate_entanglement_: the Cunqa adapter first measures both communication
\* qubits and applies x to n-1 on either outcome, the Munich adapter does not
GenerateEntanglement(s, t) ==
    IF adapter = "Munich" THEN Entangle(s)
    ELSE LET s1 == Measure(s, "n-1", "ent1", t)
             meas1 == s1.top
             s2 == Measure(s1, "n-2", "ent2", t)
             meas2 == s2.top
         IN  Entangle(GateIf(GateIf(s2, meas1, "x", <<"n-1">>), meas2, "x", <<"n-1">>))

\* case QSEND: the Munich adapter flips both q and n-2 on the data outcome
ApplyQSend(s, t, inst) ==
    LET s1 == Entangle(s)
        s2 == Gate(Gate(s1, "cx", <<"q", "n-2">>), "h", <<"q">>)
        s3 == Measure(s2, "q", "data", t)
        res == s3.top
        s4 == Measure(s3, "n-2", "anc", t)
        communication_result == s4.top
        s5 == Push(Push(s4, t, res), t, communication_result)
        s6 == GateIf(s5, res, "x", <<"q">>)
        s7 == IF adapter = "Munich" THEN GateIf(s6, res, "x", <<"n-2">>)
              ELSE GateIf(s6, communication_result, "x", <<"n-2">>)
    IN  Unblock(s7, inst.qpu)

\* case QRECV
ApplyQRecv(s, t, inst) ==
    IF ~Contains(s.qc, inst.qpu) THEN Block(s, t)
    ELSE
    LET s1 == Pop(s, inst.qpu)
        meas1 == s1.top
        s2 == Pop(s1, inst.qpu)
        meas2 == s2.top
        s3 == GateIf(s2, meas1, "x", <<"n-1">>)
        s4 == GateIf(s3, meas2, "z", <<"n-1">>)
        s5 == Measure(Gate(s4, "swap", <<"n-1", "q">>), "n-1", "reset", t)
    IN  GateIf(s5, s5.top, "x", <<"n-1">>)

\* ExposeFirst without T.blocked = true
ExposeFirstNoBlock(s, t, inst) ==
    LET s1 == Gate(GenerateEntanglement(s, t), "cx", <<"q", "n-2">>)
        s2 == Measure(s1, "n-2", "cat", t)
        s3 == Push(s2, t, s2.top)
        s4 == [s3 EXCEPT !.cat_entangled[t] = TRUE]
    IN  Unblock(s4, inst.qpu)

\* case EXPOSE, first call of a region (!T.cat_entangled)
ExposeFirst(s, t, inst) ==
    LET s1 == Gate(GenerateEntanglement(s, t), "cx", <<"q", "n-2">>)
        s2 == Measure(s1, "n-2", "cat", t)
        s3 == Push(s2, t, s2.top)
        s4 == [s3 EXCEPT !.cat_entangled[t] = TRUE]
    IN  Unblock(Block(s4, t), inst.qpu)

\* case EXPOSE, closing call (T.cat_entangled): the Munich adapter applies the
\* correction to n-1 and leaves cat_entangled set
ExposeClose(s, t, inst) ==
    LET s1 == Pop(s, inst.qpu)
        meas == s1.top
    IN  IF adapter = "Munich"
        THEN GateIf(s1, meas, "z", <<"n-1">>)
        ELSE [GateIf(s1, meas, "z", <<"q">>) EXCEPT !.cat_entangled[t] = FALSE]

\* case EXPOSE
ApplyExpose(s, t, inst) ==
    IF ~s.cat_entangled[t] THEN ExposeFirst(s, t, inst)
    ELSE ExposeClose(s, t, inst)

\* case RCONTROL, after the nested instructions: the Munich adapter does not erase
RControlTail(s, t, inst) ==
    LET s1 == Gate(s, "h", <<"n-1">>)
        s2 == Measure(s1, "n-1", "rc", t)
        s3 == Unblock(Push(s2, t, s2.top), inst.qpu)
    IN  IF adapter = "Munich" THEN s3
        ELSE [s3 EXCEPT !.qc = Erase(@, inst.qpu),
                        !.log = Append(@, Call("erase", inst.qpu,
                                               At(s3.qc, inst.qpu)[inst.qpu], Always))]

\* the endpoints the classical channel of the executor has a socket for: the
\* tasks of the batch
Connected == Tasks

RECURSIVE SendLoop(_, _, _, _)

\* for (const auto& clbit : clbits) classical_channel->send_measure(
\* G.creg[clbit + T.zero_clbit], qpu_id), from the i-th clbit on: send throws if
\* there is no socket for the target
SendLoop(s, t, inst, i) ==
    IF i > Len(inst.clbits) THEN s
    ELSE LET k == inst.clbits[i] + zero_clbit[t]
             s1 == [s EXCEPT !.creg = CregAt(@, k)]
         IN  IF inst.qpu \notin Connected
             THEN [s1 EXCEPT !.thrown = "runtime_error"]
             ELSE SendLoop([s1 EXCEPT !.log = Append(@, Call("send", inst.qpu, <<k>>,
                                                              Always))],
                           t, inst, i + 1)

\* case SEND
ApplySend(s, t, inst) == SendLoop(s, t, inst, 1)

\* case CX, CY, CZ, CRX, CRY, CRZ: the Cunqa adapter resolves the control -1 to
\* n-1, the Munich adapter adds zero_qubit to whatever qubits[0] is
ApplyControlled(s, t, inst) ==
    Gate(s, inst.name, IF adapter = "Munich" THEN <<"q", "q1">> ELSE <<"ctrl", "q1">>)

\* case SWAP: the targets of the Munich adapter are n-1 and qubits[0]
ApplySwap(s, t, inst) ==
    Gate(s, inst.name, IF adapter = "Munich" THEN <<"n-1", "q">> ELSE <<"q", "q1">>)

\* default: the instruction is reported on std::cerr and nothing else is done
ApplyDefault(s, t, inst) ==
    [s EXCEPT !.log = Append(@, Call("not_supported", inst.name, <<>>, Always))]

\* a nested instruction is about to be dispatched, the first of subs: recorded
\* with the number of nested instructions still to run, apart if an earlier one
\* of the same enclosing instruction has left the task blocked
Sub(s, t, subs) ==
    [s EXCEPT !.log = Append(@, Call(IF s.blocked[t] THEN "sub_blocked" ELSE "sub",
                                     Head(subs).name, <<Len(subs)>>, Always))]

RECURSIVE ApplyNextInstr(_, _, _)
RECURSIVE ApplySubInstrs(_, _, _)

\* for (const auto& sub_inst : inst.at("instructions")) apply_next_instr(T, sub_inst)
ApplySubInstrs(s, t, subs) ==
    IF subs = <<>> \/ s.thrown # "none" THEN s
    ELSE ApplySubInstrs(ApplyNextInstr(Sub(s, t, subs), t, Head(subs)), t, Tail(subs))

\* case RCONTROL
ApplyRControl(s, t, inst) ==
    IF ~Contains(s.qc, inst.qpu) THEN Block(s, t)
    ELSE
    LET s1 == Pop(s, inst.qpu)
        meas2 == s1.top
        s2 == GateIf(s1, meas2, "x", <<"n-1">>)
        s3 == ApplySubInstrs(s2, t, inst.instructions)
    IN  IF s3.thrown # "none" THEN s3 ELSE RControlTail(s3, t, inst)

\* case CIF: reading G.creg inserts false for an absent key
ApplyCif(s, t, inst) ==
    LET k == inst.clbits[1] + zero_clbit[t]
        s1 == [s EXCEPT !.creg = CregAt(@, k)]
    IN  IF s1.creg[k] THEN ApplySubInstrs(s1, t, inst.instructions) ELSE s1

\* apply_next_instr(T, instruction): INSTRUCTIONS_MAP.at(name) throws for a name
\* it does not hold, then the switch over the opcode
ApplyNextInstr(s, t, inst) ==
    CASE inst.name = UnknownName -> [s EXCEPT !.thrown = "out_of_range"]
      [] inst.name \in UnsupportedNames -> ApplyDefault(s, t, inst)
      [] inst.name = "send"     -> ApplySend(s, t, inst)
      [] inst.name = "cif"      -> ApplyCif(s, t, inst)
      [] inst.name = "qsend"    -> ApplyQSend(s, t, inst)
      [] inst.name = "qrecv"    -> ApplyQRecv(s, t, inst)
      [] inst.name = "expose"   -> ApplyExpose(s, t, inst)
      [] inst.name = "rcontrol" -> ApplyRControl(s, t, inst)
      [] inst.name = "measure"  -> ApplyMeasure(s, t, inst)
      [] inst.name = "copy"     -> ApplyCopy(s, t, inst)
      [] inst.name \in ControlledNames -> ApplyControlled(s, t, inst)
      [] inst.name = "swap"     -> ApplySwap(s, t, inst)
      [] OTHER                  -> Gate(s, inst.name, <<"q">>)

\* the part of the state a dispatch reads and writes, before the dispatch; meas
\* is the outcome a MEASURE instruction will get, thrown the exception in flight
Before ==
    [blocked |-> blocked, cat_entangled |-> cat_entangled, qc |-> qc_meas,
     creg |-> creg, classic_values |-> classic_values, written |-> written,
     log |-> <<>>, top |-> Always, ub |-> FALSE, meas |-> "m0", thrown |-> "none"]

(* ----------------------------- state vector ---------------------------- *)

\* bit k of the basis state b
BitOf(b, k) == (b \div (2 ^ k)) % 2

\* the basis state b with bit k flipped
Flip(b, k) == IF BitOf(b, k) = 0 THEN b + 2 ^ k ELSE b - 2 ^ k

\* the basis state b with bit k set to v
SetBit(b, k, v) == IF BitOf(b, k) = v THEN b ELSE Flip(b, k)

Abs(x) == IF x < 0 THEN -x ELSE x

RECURSIVE Gcd(_, _)

Gcd(a, b) == IF b = 0 THEN a ELSE Gcd(b, a % b)

RECURSIVE GcdUpTo(_, _)

\* the gcd of the amplitudes of the basis states 0..b
GcdUpTo(v, b) == IF b < 0 THEN 0 ELSE Gcd(Abs(v[b]), GcdUpTo(v, b - 1))

\* the amplitudes are integers, the vector stands for its ray: the representative
\* with coprime amplitudes, the first non-zero one positive
Normal(v) ==
    LET top == Cardinality(DOMAIN v) - 1
        g == GcdUpTo(v, top)
        first == CHOOSE b \in DOMAIN v : v[b] # 0 /\ \A c \in 0..(b - 1) : v[c] = 0
        sgn == IF v[first] < 0 THEN -1 ELSE 1
    IN  [b \in DOMAIN v |-> sgn * (Abs(v[b]) \div g) * (IF v[b] < 0 THEN -1 ELSE 1)]

\* |0...0> of n qubits
Zero(n) == [b \in 0..(2 ^ n - 1) |-> IF b = 0 THEN 1 ELSE 0]

X(v, k) == [b \in DOMAIN v |-> v[Flip(b, k)]]

Z(v, k) == [b \in DOMAIN v |-> IF BitOf(b, k) = 1 THEN -v[b] ELSE v[b]]

\* Hadamard, without the factor 1/sqrt(2)
H(v, k) ==
    [b \in DOMAIN v |->
        v[SetBit(b, k, 0)] + (IF BitOf(b, k) = 1 THEN -1 ELSE 1) * v[SetBit(b, k, 1)]]

CX(v, c, k) == [b \in DOMAIN v |-> IF BitOf(b, c) = 1 THEN v[Flip(b, k)] ELSE v[b]]

Swap(v, j, k) ==
    [b \in DOMAIN v |-> v[SetBit(SetBit(b, j, BitOf(b, k)), k, BitOf(b, j))]]

\* executor.apply_gate(name, qubits) on the state vector
ApplyGate(v, name, qs) ==
    CASE name = "x"    -> X(v, qs[1])
      [] name = "z"    -> Z(v, qs[1])
      [] name = "h"    -> Normal(H(v, qs[1]))
      [] name = "cx"   -> CX(v, qs[1], qs[2])
      [] name = "swap" -> Swap(v, qs[1], qs[2])
      [] OTHER         -> v

\* the outcomes a measurement of qubit k can give
Possible(v, k) == {BitOf(b, k) : b \in {c \in DOMAIN v : v[c] # 0}}

\* the state after qubit k has been measured with outcome m
Collapse(v, k, m) == Normal([b \in DOMAIN v |-> IF BitOf(b, k) = m THEN v[b] ELSE 0])

\* qubit k is in |0>
IsZero(v, k) == Possible(v, k) = {0}

RECURSIVE RhoSum(_, _, _, _, _)

\* entry (i, j) of the reduced density matrix of qubit k, summed over the basis
\* states 0..b of the other qubits
RhoSum(v, k, i, j, b) ==
    IF b < 0 THEN 0
    ELSE (IF BitOf(b, k) = 0 THEN v[SetBit(b, k, i)] * v[SetBit(b, k, j)] ELSE 0)
         + RhoSum(v, k, i, j, b - 1)

\* the reduced density matrix of qubit k up to its trace: the entries (0,0), (0,1)
\* and (1,1), made coprime.  A global phase of v does not change it.
Rho(v, k) ==
    LET top == Cardinality(DOMAIN v) - 1
        r == [e \in {<<0, 0>>, <<0, 1>>, <<1, 1>>} |-> RhoSum(v, k, e[1], e[2], top)]
        g == Gcd(Gcd(r[<<0, 0>>], Abs(r[<<0, 1>>])), r[<<1, 1>>])
    IN  <<r[<<0, 0>>] \div g, (IF r[<<0, 1>>] < 0 THEN -1 ELSE 1) * (Abs(r[<<0, 1>>]) \div g),
          r[<<1, 1>>] \div g>>

\* the index of a qubit named in a call of a dispatch of task t on instruction
\* inst: qubits[0] + T.zero_qubit, G.n_qubits - 2, G.n_qubits - 1
QubitOf(name, t, inst) ==
    CASE name = "n-2" -> n_qubits - 2
      [] name = "n-1" -> n_qubits - 1
      [] name = "q1"  -> inst.qubits[2] + zero_qubit[t]
      [] name = "ctrl" -> IF inst.qubits[1] = -1 THEN n_qubits - 1
                          ELSE inst.qubits[1] + zero_qubit[t]
      [] OTHER        -> inst.qubits[1] + zero_qubit[t]

\* the bits a recorded measurement value can stand for: its outcome; what top()
\* of an empty stack reads can be either bit
BitsOf(env, val) == IF val \in DOMAIN env THEN {env[val]} ELSE {0, 1}

\* the effect of one call of a dispatch on the state vector x.psi and the outcomes
\* x.env: a MEASURE instruction got the outcome the dispatch was given
StepCall(x, c, t, inst) ==
    CASE c.ev = "gate" ->
           {[x EXCEPT !.psi = ApplyGate(@, c.key, [i \in DOMAIN c.val |->
                                                      QubitOf(c.val[i], t, inst)])]}
      [] c.ev = "gate_if" ->
           {IF m = 1
            THEN [x EXCEPT !.psi = ApplyGate(@, c.key, [i \in DOMAIN c.val |->
                                                          QubitOf(c.val[i], t, inst)])]
            ELSE x : m \in BitsOf(x.env, c.cond)}
      [] c.ev = "measure" ->
           LET k == QubitOf(c.key, t, inst)
               given == CASE c.cond.kind = "m0" -> {0}
                          [] c.cond.kind = "m1" -> {1}
                          [] OTHER              -> {0, 1}
           IN  {[psi |-> Collapse(x.psi, k, m), env |-> (c.cond :> m) @@ x.env] :
                   m \in Possible(x.psi, k) \cap given}
      [] OTHER -> {x}

RECURSIVE Replay(_, _, _, _)

\* the states the calls of a dispatch can leave the executor in
Replay(x, calls, t, inst) ==
    IF calls = <<>> THEN {x}
    ELSE UNION {Replay(y, Tail(calls), t, inst) : y \in StepCall(x, Head(calls), t, inst)}

\* the executor after a dispatch of task t on inst that made the calls
Quantum(calls, t, inst) ==
    IF psi = <<>> THEN {[psi |-> psi, env |-> outcome]}
    ELSE Replay([psi |-> psi, env |-> outcome], calls, t, inst)

\* the reduced states recorded at a dispatch of task t on inst, after which the
\* state vector is after: that of q before a QSEND, that of r after a QRECV that
\* did not block
SentAfter(t, inst) ==
    IF psi # <<>> /\ inst.name = "qsend"
    THEN Append(sent, [src |-> t, dst |-> inst.qpu,
                       rho |-> Rho(psi, QubitOf("q", t, inst))])
    ELSE sent

ReceivedAfter(t, inst, blk, after) ==
    IF psi # <<>> /\ inst.name = "qrecv" /\ ~blk
    THEN Append(received, [src |-> inst.qpu, dst |-> t,
                           rho |-> Rho(after, QubitOf("q", t, inst))])
    ELSE received

(* --------------------------- ClassicalChannel -------------------------- *)

\* the k-th message of peer p: the identity frame the router socket puts before
\* it, and the data
Frame(p, k) == [id |-> p, data |-> <<p, k>>]

\* a channel as constructed, nothing sent to it yet
NewChannel ==
    [pipe |-> [p \in Senders |-> <<>>],
     message_queue |-> [p \in Senders |-> <<>>],
     origin |-> NoQpu,
     sends |-> [p \in Senders |-> 0],
     returned |-> <<>>]

(* ------------------------------ QuantumTask ---------------------------- *)

\* j.dump(): a text is the sequence of the JSON values written in it
JsonDump(v) == <<v>>

\* JSON::parse accepts a text that holds one value
ParseError(text) == Len(text) # 1

\* to_string: the dump of config followed by the dump of circuit, the empty
\* string for an empty circuit
to_string(data) ==
    IF data.circuit = <<>> THEN <<>>
    ELSE JsonDump(data.config) \o JsonDump(data.circuit)

\* the task document a client writes for a task: one object
Document(data) ==
    [id |-> data.id, config |-> data.config, instructions |-> data.circuit]
    @@ (IF data.sending_to # <<>> THEN [sending_to |-> data.sending_to] ELSE <<>>)
    @@ (IF data.is_dynamic THEN [is_dynamic |-> TRUE] ELSE <<>>)

\* a QuantumTask as default constructed, with the id of the task it stands for
NewTask(id) ==
    [id |-> id, config |-> <<>>, circuit |-> <<>>, sending_to |-> <<>>,
     is_dynamic |-> FALSE]

\* the outcome of a call on a task: the task after it, the exception that left
\* it, whether the process ended in it
Outcome(task, thrown, crashed) == [task |-> task, thrown |-> thrown, crashed |-> crashed]

\* what params[counter] reads past the end of the vector
GarbageParam == -1

\* the opcodes whose case of the switch writes params[0]
UpdatedNames == {"rx", "ry", "rz"}

RECURSIVE UpdateParamsFrom(_, _, _, _)

\* the loop of update_params_ from instruction i on, counter values consumed:
\* the outcomes; params[counter] past the end ends the process or reads garbage
UpdateParamsFrom(task, params, i, counter) ==
    IF i > Len(task.circuit) THEN {Outcome(task, "none", FALSE)}
    ELSE LET instruction == task.circuit[i] IN
         IF instruction.name = UnknownName
         THEN {Outcome(task, "runtime_error", FALSE)}
         ELSE IF instruction.name \notin UpdatedNames
         THEN UpdateParamsFrom(task, params, i + 1, counter)
         ELSE IF counter + 1 \in DOMAIN params
         THEN UpdateParamsFrom([task EXCEPT !.circuit[i].params[1] = params[counter + 1]],
                               params, i + 1, counter + 1)
         ELSE {Outcome(task, "none", TRUE)}
              \cup UpdateParamsFrom([task EXCEPT !.circuit[i].params[1] = GarbageParam],
                                    params, i + 1, counter + 1)

\* update_params_
UpdateParams(task, params) ==
    IF task.circuit = <<>> THEN {Outcome(task, "runtime_error", FALSE)}
    ELSE UpdateParamsFrom(task, params, 1, 0)

\* get<std::vector<std::string>>() converts v: every element is a string
StringVector(v) == \A i \in DOMAIN v : v[i] # NotAString

\* update_circuit on a task whose is_distributed is false: the members are
\* assigned one after the other, a conversion that throws leaves those before it
\* assigned
UpdateCircuit(task, text) ==
    IF ParseError(text) THEN {Outcome(task, "parse_error", FALSE)}
    ELSE LET quantum_task_json == text[1] IN
         IF "instructions" \in DOMAIN quantum_task_json /\ "config" \in DOMAIN quantum_task_json
         THEN IF "sending_to" \in DOMAIN quantum_task_json
                 /\ ~StringVector(quantum_task_json.sending_to)
              THEN {Outcome([task EXCEPT
                               !.circuit = quantum_task_json.instructions,
                               !.config = quantum_task_json.config],
                            "type_error", FALSE)}
              ELSE {Outcome([task EXCEPT
                          !.circuit = quantum_task_json.instructions,
                          !.config = quantum_task_json.config,
                          !.sending_to = IF "sending_to" \in DOMAIN quantum_task_json
                                         THEN quantum_task_json.sending_to ELSE <<>>,
                          !.is_dynamic = IF "is_dynamic" \in DOMAIN quantum_task_json
                                         THEN quantum_task_json.is_dynamic ELSE FALSE],
                       "none", FALSE)}
         ELSE IF "params" \in DOMAIN quantum_task_json
         THEN UpdateParams(task, quantum_task_json.params)
         ELSE {Outcome(task, "runtime_error", FALSE)}

\* a task and nothing encoded
NewCodec(task) ==
    [task |-> task, text |-> <<>>, decoded |-> Outcome(NewTask(""), "none", FALSE),
     params |-> <<>>, pc |-> "start"]

(* ----------------------------- CunqaExecutor --------------------------- *)

\* the executor at the entry of run, the QPUs connected
NewBroker ==
    [pc |-> "recv", i |-> 1, k |-> 1, qpus_working |-> <<>>, quantum_tasks |-> <<>>,
     result_str |-> <<>>,
     inbox |-> [p \in Qpus |-> <<>>],
     outbox |-> [p \in Qpus |-> <<>>],
     qpu |-> [p \in Qpus |-> [waiting |-> FALSE, executes |-> 0]],
     round |-> 1,
     sent |-> [p \in Qpus |-> <<>>],
     results |-> [p \in Qpus |-> <<>>],
     rounds |-> <<>>]

\* what simulate returns for a batch: a document made from its tasks
ResultOf(tasks) == JsonDump([counts |-> tasks])

\* what simulate returns after reading quantum_tasks[0] of an empty vector
GarbageResult == JsonDump([counts |-> <<NewTask("garbage")>>])

\* simulate throws: an instruction of a task has a name the opcode map does not hold
Throws(tasks) ==
    \E n \in DOMAIN tasks : \E l \in DOMAIN tasks[n].circuit :
        tasks[n].circuit[l].name = UnknownName

(* ----------------------------- registry file --------------------------- *)

\* j.dump(4): the entries of the object in key order between braces
Dump(j) ==
    LET keys == SelectSeq(KeyOrder, LAMBDA k : k \in DOMAIN j)
    IN  <<"{">> \o [i \in DOMAIN keys |-> <<keys[i], j[keys[i]]>>] \o <<"}">>

\* read_json: the object parsed from the bytes, an empty object for an empty file
Parse(text) ==
    IF text = <<>> THEN <<>>
    ELSE LET es == SubSeq(text, 2, Len(text) - 1)
         IN  [k \in {es[i][1] : i \in DOMAIN es} |->
                 es[CHOOSE i \in DOMAIN es : es[i][1] = k][2]]

\* job_id + "_" + local_id (the suffix is empty)
TaskKey(p) == JobId(p) \o <<"_">> \o LocalId(p)

\* j[task_id] = local_data
WithEntry(j, key, data) == (key :> data) @@ j

\* key == rm_key
SameKey(key, rm_key) == key = rm_key

\* key.rfind(rm_key, 0) == 0
StartsWith(key, rm_key) ==
    Len(rm_key) <= Len(key) /\ SubSeq(key, 1, Len(rm_key)) = rm_key

\* the loop of remove_from_file: out keeps the entries whose key does not start
\* with rm_key
Filtered(j, rm_key) ==
    [k \in {x \in DOMAIN j : ~StartsWith(x, rm_key)} |-> j[k]]

\* the registry file holding the object j, no process using it
NewRegistry(j) ==
    [text |-> IF j = <<>> THEN <<>> ELSE Dump(j),
     lock |-> [p \in Procs |-> "none"],
     pc |-> [p \in Procs |-> "idle"],
     op |-> [p \in Procs |-> [name |-> "none", data |-> "", rm_key |-> <<>>]],
     j |-> [p \in Procs |-> <<>>],
     ops |-> [p \in Procs |-> 0],
     waited |-> [p \in Procs |-> FALSE],
     seen |-> <<>>,
     removed |-> <<>>]

\* a read lock is granted whatever the other processes hold
ReadGrantedAlways(reg, p) == TRUE

\* fcntl(F_SETLKW) with F_RDLCK is granted: no other process holds a write lock
ReadGranted(reg, p) == \A q \in Procs \ {p} : reg.lock[q] # "write"

\* fcntl(F_SETLKW) with F_WRLCK is granted: no other process holds a lock
WriteGranted(reg, p) == \A q \in Procs \ {p} : reg.lock[q] = "none"

\* the lock the operation of p asks for is granted
Granted(reg, p) ==
    IF reg.op[p].name = "read_from_file" THEN ReadGranted(reg, p)
    ELSE WriteGranted(reg, p)

(* ------------------------ CunqaExecutor, QulacsQCSimulator -------------- *)

\* a key of the registry file: job_id + "_" + local_id
Key(job, local) == [job |-> job, local |-> local]

\* executor_id of a QPU: SLURM_JOB_ID + "_executor"
executor_id == Key(JobOfExecutor, "executor")

\* the key write_on_file gives the entry of a process: its SLURM_JOB_ID and its
\* SLURM_TASK_PID
KeyOfExecutor == Key(JobOfExecutor, PidOfExecutor)

KeyOfQpu(p) == Key(JobOfExecutor, p)

\* the executor and its QPUs at the entry of their constructors, the registry
\* file holding the keys file
NewStartup(file) ==
    [file |-> file, pc |-> "scan", ids |-> {}, i |-> 1, communications |-> {},
     sockets |-> {},
     qpu |-> [p \in Qpus |-> [pc |-> "publish", ready |-> 0, communications |-> {},
                              published |-> FALSE, lookup |-> "none"]]]

\* the components around the shot as constructed
SysIdle ==
    /\ channel = NewChannel
    /\ registry = NewRegistry(<<>>)
    /\ codec = NewCodec(NewTask(""))
    /\ broker = NewBroker
    /\ startup = NewStartup({})

\* zmq_comm_server.recv never taken: a recv goes to the socket whatever is stored
NeverStored(ch, origin) == FALSE

\* !message_queue[origin].empty()
Stored(ch, origin) == ch.message_queue[origin] # <<>>

\* the frame of another sender is dropped
PushNothing(q, f) == q

\* message_queue[id_str].push(data)
PushData(q, f) == [q EXCEPT ![f.id] = Append(@, f.data)]

\* return data, to the recv called with origin
Returned(ch, origin, data) ==
    [ch EXCEPT !.returned = Append(@, [origin |-> origin, data |-> data]),
               !.origin = NoQpu]

(* ----------------------------- execute_shot_ --------------------------- *)

\* the position of task t in quantum_tasks
IndexOf(t) == CHOOSE i \in DOMAIN quantum_tasks : quantum_tasks[i] = t

RECURSIVE SumBefore(_, _)

\* the sum of the config field f over the tasks before position i of quantum_tasks
SumBefore(i, f) ==
    IF i <= 1 THEN 0 ELSE SumBefore(i - 1, f) + config[quantum_tasks[i - 1]][f]

\* the locals of execute_shot_ other than the offsets, as constructed: an empty
\* GlobalState, and the defaults of the TaskState fields
Locals ==
    /\ finished = [t \in Tasks |-> FALSE]
    /\ blocked = [t \in Tasks |-> FALSE]
    /\ cat_entangled = [t \in Tasks |-> FALSE]
    /\ qc_meas = <<>>
    /\ creg = <<>>
    /\ classic_values = <<>>
    /\ written = <<>>
    /\ ended = FALSE
    /\ pos = 1
    /\ result = "none"
    /\ result_bits = <<>>
    /\ klog = [task |-> NoQpu, inst |-> Instr("none", NoQpu, <<>>), calls |-> <<>>]
    /\ nested = [t \in Tasks |-> <<>>]

\* the state at the first test of while (!G.ended), for the adapter a and a batch
\* among batches whose tasks have one qubit and no classical bit: the setup loop
\* has run, every task is at the start of its circuit
AtWhile(a, batches) ==
    /\ adapter = a
    /\ circuit \in batches
    /\ config = [t \in Tasks |-> Config(1, 0)]
    /\ order \in Orders(Tasks)
    /\ si = Len(quantum_tasks) + 1
    /\ zero_qubit = [t \in Tasks |-> SumBefore(IndexOf(t), "num_qubits")]
    /\ zero_clbit = [t \in Tasks |-> SumBefore(IndexOf(t), "num_clbits")]
    /\ n_qubits = SumBefore(Len(quantum_tasks) + 1, "num_qubits")
                  + IF Len(quantum_tasks) > 1 THEN 2 ELSE 0
    /\ n_clbits = SumBefore(Len(quantum_tasks) + 1, "num_clbits")
    /\ it = [t \in Tasks |-> 1]
    /\ pc = "while"
    /\ Locals
    /\ SysIdle

\* the state vector is not followed
Untracked == psi = <<>> /\ outcome = <<>> /\ sent = <<>> /\ received = <<>>

\* the state vector as Executor executor(n_qubits) constructs it: |0...0>
Tracked == psi = Zero(n_qubits) /\ outcome = <<>> /\ sent = <<>> /\ received = <<>>

\* the one shot of a simulate with shots = 1
OneShot == shots = 1 /\ shot = 0 /\ meas_counter = <<>>

\* a shot at the first test of its while loop
InitBatch(a, batches) == AtWhile(a, batches) /\ Untracked /\ OneShot

\* a batch of two tasks
InitOf(a) == InitBatch(a, Batches(TaskIds))

Init == InitOf("Cunqa")

\* a batch of three tasks
Init3 == InitBatch("Cunqa", Batches3)

\* a batch of four tasks
Init4 == InitBatch("Cunqa", Batches4)

\* a shot of three tasks, the first of which opens a cat region
InitExpose3 == InitBatch("Cunqa", BatchesExpose3)

\* a shot of two tasks whose remote operations may name a peer outside the batch
InitPeers == InitBatch("Cunqa", BatchesPeers(MaxLen))

InitMunich == InitOf("Munich")

\* a shot of the Cunqa adapter whose state vector is followed
InitQ == AtWhile("Cunqa", BatchesQ(MaxLen)) /\ Tracked /\ OneShot

\* a shot of the Munich adapter whose state vector is followed
InitQMunich == AtWhile("Munich", BatchesQ(MaxLen)) /\ Tracked /\ OneShot

\* a shot of the Cunqa adapter on circuits with nested instructions, the state
\* vector followed
InitNested == AtWhile("Cunqa", NestedBatches) /\ Tracked /\ OneShot

\* the state at the entry of execute_shot_, for the adapter a and inputs (the
\* circuits and the configs of a batch) among inputs: Ts is empty and G is
\* zero.  The Maestro adapter keeps the tasks in vectors and visits them by index.
AtEntry(a, inputs) ==
    /\ adapter = a
    /\ \E in \in inputs : circuit = in.circuit /\ config = in.config
    /\ order \in IF a = "Maestro" THEN {quantum_tasks} ELSE Orders(Tasks)
    /\ si = 1
    /\ zero_qubit = [t \in Tasks |-> 0]
    /\ zero_clbit = [t \in Tasks |-> 0]
    /\ n_qubits = 0
    /\ n_clbits = 0
    /\ it = [t \in Tasks |-> 0]
    /\ Locals
    /\ SysIdle

\* the entry of the one shot of a simulate with shots = 1
InitSetup(a, inputs) == AtEntry(a, inputs) /\ pc = "setup" /\ Untracked /\ OneShot

\* the entry of execute_shot_ with three tasks of any config
InitSetup3 == InitSetup("Cunqa", SetupInputs)

\* the entry of execute_shot_ with two tasks of local instructions
InitLocal == InitSetup("Cunqa", LocalInputs(MaxBits))

\* the entry of execute_shot_ of the Maestro adapter
InitMaestro == InitSetup("Maestro", MaestroInputs(Configs))

\* simulate(classical_channel) of the Cunqa adapter at the first test of its loop
\* over the shots: meas_counter is empty, the executor holds |0...0> of the
\* qubits of the tasks and the two communication qubits
InitSim ==
    /\ AtEntry("Cunqa", SimInputs)
    /\ pc = "shots"
    /\ shots \in 0..MaxShots
    /\ shot = 0
    /\ meas_counter = <<>>
    /\ psi = Zero(SumBefore(Len(quantum_tasks) + 1, "num_qubits")
                  + IF Len(quantum_tasks) > 1 THEN 2 ELSE 0)
    /\ outcome = <<>> /\ sent = <<>> /\ received = <<>>

\* simulate(classical_channel) on inputs that meet errors
InitErr ==
    /\ AtEntry("Cunqa", ErrInputs)
    /\ pc = "shots"
    /\ shots \in 1..MaxShots
    /\ shot = 0
    /\ meas_counter = <<>>
    /\ psi = Zero(SumBefore(Len(quantum_tasks) + 1, "num_qubits")
                  + IF Len(quantum_tasks) > 1 THEN 2 ELSE 0)
    /\ outcome = <<>> /\ sent = <<>> /\ received = <<>>

\* the task the range-for stands on
Cur == order[pos]

\* ZeroOffset taken after the task has been counted
ZeroOffsetAfter(total, own) == total + own

\* T.zero_qubit = G.n_qubits, T.zero_clbit = G.n_clbits: the total before the
\* task's own register is added
ZeroOffset(total, own) == total

\* one iteration of for (auto &quantum_task : quantum_tasks)
SetupTask ==
    /\ pc = "setup" /\ si <= Len(quantum_tasks)
    /\ LET t == quantum_tasks[si] IN
       /\ zero_qubit' = [zero_qubit EXCEPT ![t] = ZeroOffset(n_qubits, config[t].num_qubits)]
       /\ zero_clbit' = [zero_clbit EXCEPT ![t] = ZeroOffset(n_clbits, config[t].num_clbits)]
       /\ it' = [it EXCEPT ![t] = 1]
       /\ blocked' = [blocked EXCEPT ![t] = FALSE]
       /\ finished' = [finished EXCEPT ![t] = FALSE]
       /\ n_qubits' = n_qubits + config[t].num_qubits
       /\ n_clbits' = n_clbits + config[t].num_clbits
    /\ si' = si + 1
    /\ UNCHANGED <<sysVars, adapter, circuit, order, cat_entangled, qc_meas, ended, pc, pos,
                   result, klog, config, cregVars,
                   qVars, simVars, nested>>

\* the setup loop is over: if (size(quantum_tasks) > 1) G.n_qubits += 2
SetupEnd ==
    /\ pc = "setup" /\ si > Len(quantum_tasks)
    /\ n_qubits' = IF Len(quantum_tasks) > 1 THEN n_qubits + 2 ELSE n_qubits
    /\ pc' = "while"
    /\ UNCHANGED <<sysVars, adapter, circuit, order, it, finished, blocked, cat_entangled,
                   qc_meas, ended, pos, result, klog, config, si, zero_qubit,
                   zero_clbit, n_clbits, cregVars,
                   qVars, simVars, nested>>

\* NextIt with the cursor advanced after every dispatch
NextItAlways(t, blk) == it[t] + 1

\* ++T.it unless the dispatch left the task blocked
NextIt(t, blk) == IF ~blk THEN it[t] + 1 ELSE it[t]

\* if (T.finished || T.blocked) continue; a TaskState operator[] inserted is
\* neither
Skipped(t) == t \in Tasks /\ (finished[t] \/ blocked[t])

\* the sequence o with k put at position j
InsertAt(o, j, k) == SubSeq(o, 1, j - 1) \o <<k>> \o SubSeq(o, j, Len(o))

\* the orders in which the range-for can go on after a dispatch that left the
\* keys of Ts as they are in s: an inserted TaskState can be anywhere among the
\* others, before the element the loop stands on or after it
OrdersAfter(s) ==
    IF DOMAIN s.blocked = DOMAIN blocked THEN {order}
    ELSE {InsertAt(order, j, k) : j \in 1..(Len(order) + 1),
                                  k \in DOMAIN s.blocked \ DOMAIN blocked}

\* the position of task t in the order o
PosIn(o, t) == CHOOSE i \in DOMAIN o : o[i] = t

\* while (!G.ended) { G.ended = true; for (auto& [id, T] : Ts)
WhileEnter ==
    /\ pc = "while" /\ ~ended
    /\ ended' = TRUE
    /\ pos' = 1
    /\ pc' = "for"
    /\ UNCHANGED <<sysVars, adapter, circuit, order, it, finished, blocked, cat_entangled,
                   qc_meas, result, klog, setupVars, cregVars,
                   qVars, simVars, nested>>

\* the range-for passes over a finished or blocked task
Skip ==
    /\ pc = "for" /\ pos <= Len(order)
    /\ Skipped(Cur)
    /\ pos' = pos + 1
    /\ UNCHANGED <<sysVars, adapter, circuit, order, it, finished, blocked, cat_entangled,
                   qc_meas, ended, pc, result, klog, setupVars, cregVars,
                   qVars, simVars, nested>>

\* the loop body after the dispatch left state s: the cursor, G.ended, T.finished
AfterDispatch(t, s) ==
    LET nit == NextIt(t, s.blocked[t]) IN
    /\ blocked' = s.blocked
    /\ cat_entangled' = s.cat_entangled
    /\ qc_meas' = s.qc
    /\ it' = [it EXCEPT ![t] = nit]
    /\ ended' = IF nit # End(t) THEN FALSE ELSE ended
    /\ finished' = IF nit # End(t) THEN finished ELSE [finished EXCEPT ![t] = TRUE]

\* an exception leaves apply_next_instr and execute_shot_ in state s: the rest of
\* the loop body does not run
Thrown(s) ==
    /\ blocked' = s.blocked
    /\ cat_entangled' = s.cat_entangled
    /\ qc_meas' = s.qc
    /\ pc' = "failed"
    /\ result' = s.thrown
    /\ UNCHANGED <<it, ended, finished, pos>>

\* the nested dispatches among the calls of a dispatch made with the cursor at
SubsOf(calls, at) ==
    LET subs == SelectSeq(calls, LAMBDA c : c.ev \in {"sub", "sub_blocked"})
    IN  [i \in DOMAIN subs |-> <<at, subs[i].val[1]>>]

\* apply_next_instr(T, {}) on a task that is neither finished nor blocked, and the
\* rest of the loop body
Dispatch ==
    /\ pc = "for" /\ pos <= Len(order)
    /\ Cur \in Tasks /\ ~Skipped(Cur)
    /\ it[Cur] \in DOMAIN circuit[Cur]
    /\ \E m \in Outcomes(circuit[Cur][it[Cur]]) :
          LET inst == circuit[Cur][it[Cur]]
              s == ApplyNextInstr([Before EXCEPT !.meas = m], Cur, inst)
          IN  /\ order' \in OrdersAfter(s)
              /\ IF s.thrown = "none"
                 THEN /\ AfterDispatch(Cur, s)
                      /\ pos' = PosIn(order', Cur) + 1
                      /\ UNCHANGED <<pc, result>>
                 ELSE Thrown(s)
              /\ creg' = s.creg
              /\ classic_values' = s.classic_values
              /\ written' = s.written
              /\ klog' = [task |-> Cur, inst |-> inst, calls |-> s.log]
              /\ nested' = [nested EXCEPT ![Cur] = @ \o SubsOf(s.log, it[Cur])]
              /\ \E x \in Quantum(s.log, Cur, inst) :
                    /\ psi' = x.psi
                    /\ outcome' = x.env
                    /\ received' = ReceivedAfter(Cur, inst, s.blocked[Cur], x.psi)
              /\ sent' = SentAfter(Cur, inst)
    /\ UNCHANGED <<sysVars, adapter, circuit, result_bits, setupVars,
                   simVars>>

\* the range-for reaches a TaskState that operator[] inserted: its cursor is a
\* default-constructed iterator, which apply_next_instr dereferences
DispatchInserted ==
    /\ pc = "for" /\ pos <= Len(order)
    /\ Cur \notin Tasks
    /\ pc' = "crashed"
    /\ UNCHANGED <<sysVars, adapter, circuit, order, it, finished, blocked, cat_entangled,
                   qc_meas, ended, pos, result, klog, setupVars, cregVars,
                   qVars, simVars, nested>>

\* a dispatch that pops an empty stack may also end the process
DispatchCrash ==
    /\ pc = "for" /\ pos <= Len(order)
    /\ Cur \in Tasks /\ ~Skipped(Cur)
    /\ it[Cur] \in DOMAIN circuit[Cur]
    /\ LET inst == circuit[Cur][it[Cur]]
           s == ApplyNextInstr(Before, Cur, inst)
       IN  /\ s.ub
           /\ klog' = [task |-> Cur, inst |-> inst, calls |-> s.log]
    /\ pc' = "crashed"
    /\ UNCHANGED <<sysVars, adapter, circuit, order, it, finished, blocked, cat_entangled,
                   qc_meas, ended, pos, result, setupVars, cregVars,
                   qVars, simVars, nested>>

\* apply_next_instr(T, {}) on a task whose cursor is not before T.end (its
\* instruction list is empty): *T.it is undefined.  The process ends, or what is
\* read passes for an instruction the switch does not know and the cursor moves
\* further past the end (every position past the end is End(t) + 1 here)
DispatchEnd ==
    /\ pc = "for" /\ pos <= Len(order)
    /\ Cur \in Tasks /\ ~Skipped(Cur)
    /\ it[Cur] \notin DOMAIN circuit[Cur]
    /\ klog' = [task |-> Cur, inst |-> Instr("garbage", NoQpu, <<>>), calls |-> <<>>]
    /\ \/ /\ pc' = "crashed"
          /\ UNCHANGED <<it, ended, pos>>
       \/ /\ it' = [it EXCEPT ![Cur] = End(Cur) + 1]
          /\ ended' = FALSE
          /\ pos' = pos + 1
          /\ pc' = pc
    /\ UNCHANGED <<sysVars, adapter, circuit, order, finished, blocked, cat_entangled,
                   qc_meas, result, setupVars, cregVars,
                   qVars, simVars, nested>>

\* the range-for has visited every task: back to the test of the while
ForEnd ==
    /\ pc = "for" /\ pos > Len(order)
    /\ pc' = "while"
    /\ UNCHANGED <<sysVars, adapter, circuit, order, it, finished, blocked, cat_entangled,
                   qc_meas, ended, pos, result, klog, setupVars, cregVars,
                   qVars, simVars, nested>>

\* the map the result is read from
ResultReg == IF adapter = "Maestro" THEN classic_values ELSE creg

\* std::string result_bits(G.n_clbits, '0'); for every (bitIndex, value) of the map
\* result_bits[G.n_clbits - bitIndex - 1] = value ? '1' : '0'.  The character at
\* position p (from 1) is that of bitIndex = n_clbits - p.
ResultBits(reg) ==
    [p \in 1..n_clbits |->
        IF (n_clbits - p) \in DOMAIN reg /\ reg[n_clbits - p] THEN "1" ELSE "0"]

\* G.ended holds at the test: the loop exits and result_bits is returned.  A write
\* for a bitIndex outside the string is undefined; here it leaves the string as is
Return ==
    /\ pc = "while" /\ ended
    /\ pc' = "returned"
    /\ result' = "result_bits"
    /\ result_bits' = ResultBits(ResultReg)
    /\ UNCHANGED <<sysVars, adapter, circuit, order, it, finished, blocked, cat_entangled,
                   qc_meas, ended, pos, klog, setupVars, creg, classic_values,
                   written,
                   qVars, simVars, nested>>

\* the write of result_bits for a bitIndex outside the string may end the process
ReturnCrash ==
    /\ pc = "while" /\ ended
    /\ \E k \in DOMAIN ResultReg : k >= n_clbits
    /\ pc' = "crashed"
    /\ UNCHANGED <<sysVars, adapter, circuit, order, it, finished, blocked, cat_entangled,
                   qc_meas, ended, pos, result, klog, setupVars, cregVars,
                   qVars, simVars, nested>>

\* i < shots: execute_shot_ is entered with an empty Ts and a zero G
ShotEnter ==
    /\ pc = "shots" /\ shot < shots
    /\ pc' = "setup"
    /\ si' = 1
    /\ zero_qubit' = [t \in Tasks |-> 0]
    /\ zero_clbit' = [t \in Tasks |-> 0]
    /\ n_qubits' = 0
    /\ n_clbits' = 0
    /\ it' = [t \in Tasks |-> 0]
    /\ finished' = [t \in Tasks |-> FALSE]
    /\ blocked' = [t \in Tasks |-> FALSE]
    /\ cat_entangled' = [t \in Tasks |-> FALSE]
    /\ qc_meas' = <<>>
    /\ creg' = <<>>
    /\ classic_values' = <<>>
    /\ written' = <<>>
    /\ ended' = FALSE
    /\ pos' = 1
    /\ result' = "none"
    /\ result_bits' = <<>>
    /\ klog' = [task |-> NoQpu, inst |-> Instr("none", NoQpu, <<>>), calls |-> <<>>]
    /\ nested' = [t \in Tasks |-> <<>>]
    /\ outcome' = <<>> /\ sent' = <<>> /\ received' = <<>>
    /\ UNCHANGED <<sysVars, adapter, circuit, config, order, psi, simVars>>

\* meas_counter[key] = 1 whatever it held
CountOnce(mc, key) == (key :> 1) @@ mc

\* meas_counter[key]++: operator[] inserts 0 for an absent key
Count(mc, key) ==
    IF key \in DOMAIN mc THEN [mc EXCEPT ![key] = @ + 1] ELSE mc @@ (key :> 1)

\* the shot has returned: meas_counter[result_bits]++; executor.restart_statevector();
\* ++i
ShotDone ==
    /\ pc = "returned"
    /\ meas_counter' = Count(meas_counter, result_bits)
    /\ psi' = IF psi = <<>> THEN psi ELSE Zero(n_qubits)
    /\ shot' = shot + 1
    /\ pc' = "shots"
    /\ UNCHANGED <<sysVars, adapter, circuit, order, it, finished, blocked, cat_entangled,
                   qc_meas, ended, pos, result, klog, setupVars, cregVars,
                   outcome, sent, received, shots, nested>>

\* i = shots: simulate returns the counts
SimulateReturn ==
    /\ pc = "shots" /\ shot >= shots
    /\ pc' = "counts"
    /\ UNCHANGED <<sysVars, adapter, circuit, order, it, finished, blocked, cat_entangled,
                   qc_meas, ended, pos, result, klog, setupVars, cregVars,
                   qVars, simVars, nested>>

\* an exception that left execute_shot_ meets no handler in simulate nor in
\* CunqaExecutor::run: the process of the executor ends, no document is sent
Uncaught ==
    /\ pc = "failed"
    /\ pc' = "terminated"
    /\ UNCHANGED <<sysVars, adapter, circuit, order, it, finished, blocked, cat_entangled,
                   qc_meas, ended, pos, result, klog, nested, setupVars, cregVars,
                   qVars, simVars>>

\* no shot runs: simulate has not been entered
ShotIdle ==
    /\ adapter = "Cunqa"
    /\ circuit = [t \in TaskIds |-> <<>>]
    /\ config = [t \in TaskIds |-> Config(1, 0)]
    /\ order = quantum_tasks
    /\ si = 1
    /\ zero_qubit = [t \in Tasks |-> 0]
    /\ zero_clbit = [t \in Tasks |-> 0]
    /\ n_qubits = 0
    /\ n_clbits = 0
    /\ it = [t \in Tasks |-> 0]
    /\ pc = "idle"
    /\ Locals
    /\ Untracked
    /\ shots = 0 /\ shot = 0 /\ meas_counter = <<>>

\* a channel just constructed and the peers connected to it
InitChannel == ShotIdle /\ SysIdle

\* send(data, target) of peer p, target being the channel followed: the message
\* leaves on the socket of p for the target
ChannelSend(p) ==
    /\ channel.sends[p] < MaxMsgs
    /\ channel' = [channel EXCEPT !.sends[p] = @ + 1,
                                  !.pipe[p] = Append(@, Frame(p, channel.sends[p] + 1))]
    /\ UNCHANGED <<shotVars, registry, codec, broker, startup>>

\* recv(origin) with a stored message of origin: front, pop, return
RecvStored(origin) ==
    /\ channel.origin = NoQpu
    /\ Stored(channel, origin)
    /\ channel' = Returned([channel EXCEPT !.message_queue[origin] = Tail(@)],
                           origin, Head(channel.message_queue[origin]))
    /\ UNCHANGED <<shotVars, registry, codec, broker, startup>>

\* recv(origin) with no stored message of origin: into the while loop
RecvEnter(origin) ==
    /\ channel.origin = NoQpu
    /\ ~Stored(channel, origin)
    /\ channel' = [channel EXCEPT !.origin = origin]
    /\ UNCHANGED <<shotVars, registry, codec, broker, startup>>

\* one turn of the while loop of recv: the router socket hands over the two frames
\* of the oldest message of one of the peers; returned if the identity is origin,
\* stored under the identity otherwise
RecvFrames(p) ==
    /\ channel.origin # NoQpu
    /\ channel.pipe[p] # <<>>
    /\ LET f == Head(channel.pipe[p])
           ch == [channel EXCEPT !.pipe[p] = Tail(@)]
       IN  channel' = IF f.id = channel.origin
                      THEN Returned(ch, channel.origin, f.data)
                      ELSE [ch EXCEPT !.message_queue = PushData(@, f)]
    /\ UNCHANGED <<shotVars, registry, codec, broker, startup>>

\* the registry file with one of the start registries, no process using it
InitRegistry ==
    /\ ShotIdle
    /\ channel = NewChannel
    /\ codec = NewCodec(NewTask(""))
    /\ broker = NewBroker
    /\ startup = NewStartup({})
    /\ \E j \in Registries : registry = NewRegistry(j)

\* a process calls a registry operation: open_file
RegCall(p) ==
    /\ registry.pc[p] = "idle"
    /\ registry.ops[p] < MaxOps
    /\ \E op \in RegOps(p) :
          registry' = [registry EXCEPT !.pc[p] = "open", !.op[p] = op,
                                       !.waited[p] = FALSE]
    /\ UNCHANGED <<shotVars, channel, codec, broker, startup>>

\* lock_write / lock_read: granted at once, or the process waits; the request of
\* a process that would wait for a process waiting for it fails with EDEADLK,
\* the catch closes the descriptor, which drops the locks of the process
RegLock(p) ==
    /\ registry.pc[p] = "open"
    /\ registry' =
          IF Granted(registry, p)
          THEN [registry EXCEPT !.pc[p] = "locked",
                   !.lock[p] = IF registry.op[p].name = "read_from_file"
                               THEN "read" ELSE "write"]
          ELSE IF \E q \in Procs \ {p} :
                     registry.pc[q] = "waiting" /\ registry.lock[p] # "none"
               THEN [registry EXCEPT !.pc[p] = "idle", !.lock[p] = "none",
                                     !.ops[p] = @ + 1]
               ELSE [registry EXCEPT !.pc[p] = "waiting"]
    /\ UNCHANGED <<shotVars, channel, codec, broker, startup>>

\* the lock a process waits for is granted
RegWake(p) ==
    /\ registry.pc[p] = "waiting"
    /\ Granted(registry, p)
    /\ registry' = [registry EXCEPT !.pc[p] = "locked",
                       !.lock[p] = IF registry.op[p].name = "read_from_file"
                                   THEN "read" ELSE "write"]
    /\ UNCHANGED <<shotVars, channel, codec, broker, startup>>

\* read_json, and what follows up to write_json: read_from_file returns j with
\* the descriptor open and the lock held; write_on_file adds its entry;
\* remove_from_file filters
RegReadJson(p) ==
    /\ registry.pc[p] = "locked"
    /\ LET j == Parse(registry.text)
           op == registry.op[p]
       IN  registry' =
             CASE op.name = "read_from_file" ->
                    [registry EXCEPT !.pc[p] = "idle", !.ops[p] = @ + 1, !.j[p] = j,
                        !.seen = Append(@, [by |-> p, j |-> j, waited |-> registry.waited[p],
                                            torn |-> \E q \in Procs : registry.pc[q] = "write"])]
               [] op.name = "write_on_file" ->
                    [registry EXCEPT !.pc[p] = "truncate",
                                     !.j[p] = WithEntry(j, TaskKey(p), op.data)]
               [] OTHER ->
                    [registry EXCEPT !.pc[p] = "truncate",
                        !.j[p] = Filtered(j, op.rm_key),
                        !.removed = Append(@, [rm_key |-> op.rm_key, before |-> j,
                                               after |-> <<>>, written |-> FALSE])]
    /\ UNCHANGED <<shotVars, channel, codec, broker, startup>>

\* write_json: ftruncate(fd, 0)
RegTruncate(p) ==
    /\ registry.pc[p] = "truncate"
    /\ registry' = [registry EXCEPT !.pc[p] = "write", !.text = <<>>,
                       !.waited = [q \in Procs |->
                                      @[q] \/ registry.pc[q] \in {"open", "waiting"}]]
    /\ UNCHANGED <<shotVars, channel, codec, broker, startup>>

\* write_json: lseek, write(fd, output)
RegWrite(p) ==
    /\ registry.pc[p] = "write"
    /\ LET text == Dump(registry.j[p])
           n == Len(registry.removed)
       IN  registry' = [registry EXCEPT !.pc[p] = "unlock", !.text = text,
                          !.removed = IF registry.op[p].name = "remove_from_file"
                                      THEN [@ EXCEPT ![n].after = Parse(text),
                                                     ![n].written = TRUE]
                                      ELSE @]
    /\ UNCHANGED <<shotVars, channel, codec, broker, startup>>

\* unlock(fd, fl); close(fd)
RegUnlock(p) ==
    /\ registry.pc[p] = "unlock"
    /\ registry' = [registry EXCEPT !.pc[p] = "idle", !.lock[p] = "none",
                                     !.ops[p] = @ + 1]
    /\ UNCHANGED <<shotVars, channel, codec, broker, startup>>

\* processes that read, write and erase entries of the registry file
NextRegistry ==
    \E p \in Procs :
        \/ RegCall(p) \/ RegLock(p) \/ RegWake(p) \/ RegReadJson(p)
        \/ RegTruncate(p) \/ RegWrite(p) \/ RegUnlock(p)

\* the registry file and its processes
SpecRegistry == InitRegistry /\ [][NextRegistry]_vars

\* a quantum task of a circuit of at most MaxLen instructions
InitCodec ==
    /\ ShotIdle
    /\ channel = NewChannel
    /\ registry = NewRegistry(<<>>)
    /\ broker = NewBroker
    /\ startup = NewStartup({})
    /\ \E task \in QuantumTasks(MaxLen) : codec = NewCodec(task)

\* to_string(task)
Encode ==
    /\ codec.pc = "start"
    /\ codec' = [codec EXCEPT !.text = to_string(codec.task), !.pc = "encoded"]
    /\ UNCHANGED <<shotVars, channel, registry, broker, startup>>

\* QuantumTask(message) on what to_string wrote, as the executors do for a
\* message that is not empty
Decode ==
    /\ codec.pc = "encoded"
    /\ codec.text # <<>>
    /\ \E o \in UpdateCircuit(NewTask(codec.task.id), codec.text) :
          codec' = [codec EXCEPT !.decoded = o, !.pc = "decoded"]
    /\ UNCHANGED <<shotVars, channel, registry, broker, startup>>

\* update_circuit on the task document of a client
DecodeDocument ==
    /\ codec.pc = "start"
    /\ codec.task.circuit # <<>>
    /\ LET text == JsonDump(Document(codec.task)) IN
       \E o \in UpdateCircuit(NewTask(codec.task.id), text) :
          codec' = [codec EXCEPT !.text = text, !.decoded = o, !.pc = "document"]
    /\ UNCHANGED <<shotVars, channel, registry, broker, startup>>

\* update_circuit on a document of parameters, the task holding a circuit
UpdateParameters ==
    /\ codec.pc = "start"
    /\ codec.task.circuit # <<>>
    /\ \E params \in ParamLists(MaxLen) :
          LET text == JsonDump([params |-> params]) IN
          \E o \in UpdateCircuit(codec.task, text) :
             codec' = [codec EXCEPT !.text = text, !.decoded = o, !.params = params,
                                    !.pc = "updated"]
    /\ UNCHANGED <<shotVars, channel, registry, broker, startup>>

\* a task that may hold a circuit, no call made on it
InitUpdate ==
    /\ ShotIdle
    /\ channel = NewChannel
    /\ registry = NewRegistry(<<>>)
    /\ broker = NewBroker
    /\ startup = NewStartup({})
    /\ \E task \in UpdatedTasks(MaxLen) :
          codec = [NewCodec(task) EXCEPT !.decoded = Outcome(task, "none", FALSE)]

\* update_circuit on a document, whatever the task holds
Update ==
    /\ codec.pc = "start"
    /\ \E d \in UpdateDocuments(MaxLen) :
          LET text == JsonDump(d) IN
          \E o \in UpdateCircuit(codec.task, text) :
             codec' = [codec EXCEPT !.text = text, !.decoded = o, !.pc = "called"]
    /\ UNCHANGED <<shotVars, channel, registry, broker, startup>>

\* a call of update_circuit
NextUpdate == Update

\* update_circuit called once on a task
SpecUpdate == InitUpdate /\ [][NextUpdate]_vars

NextCodec == Encode \/ Decode \/ DecodeDocument \/ UpdateParameters

\* a quantum task encoded, decoded, updated
SpecCodec == InitCodec /\ [][NextCodec]_vars

\* an executor at the entry of run and its QPUs, nothing sent
InitBroker == ShotIdle /\ SysIdle

\* execute of a QPU: the task is sent as to_string writes it, or as the task
\* document of a client; the QPU waits for a result unless the message is empty
QpuExecute(p) ==
    /\ ~broker.qpu[p].waiting
    /\ broker.qpu[p].executes < MaxRounds
    /\ \E task \in QpuTasks(p) :
       \E circuit_str \in {to_string(task)}
                         \cup IF task.circuit # <<>> THEN {JsonDump(Document(task))} ELSE {} :
          broker' = [broker EXCEPT !.inbox[p] = Append(@, circuit_str),
                                   !.sent[p] = Append(@, circuit_str),
                                   !.qpu[p].executes = @ + 1,
                                   !.qpu[p].waiting = circuit_str # <<>>]
    /\ UNCHANGED <<shotVars, channel, registry, codec, startup>>

\* recv_info(executor_id) of a waiting QPU returns
QpuResult(p) ==
    /\ broker.qpu[p].waiting
    /\ broker.outbox[p] # <<>>
    /\ broker' = [broker EXCEPT !.outbox[p] = Tail(@), !.qpu[p].waiting = FALSE]
    /\ UNCHANGED <<shotVars, channel, registry, codec, startup>>

\* one turn of the loop over qpu_ids: recv_info, and for a message that is not
\* empty the push to qpus_working, JSON::parse and QuantumTask(message); an
\* exception ends the executor
BrokerRecv ==
    /\ broker.pc = "recv"
    /\ broker.i \in DOMAIN qpu_ids
    /\ broker.inbox[qpu_ids[broker.i]] # <<>>
    /\ LET qpu_id == qpu_ids[broker.i]
           message == Head(broker.inbox[qpu_id])
           b == [broker EXCEPT !.inbox[qpu_id] = Tail(@), !.i = @ + 1]
       IN  IF message = <<>> THEN broker' = b
           ELSE LET w == [b EXCEPT !.qpus_working = Append(@, qpu_id)] IN
                IF ParseError(message) THEN broker' = [w EXCEPT !.pc = "terminated"]
                ELSE \E o \in UpdateCircuit(NewTask(""), message) :
                        broker' = IF o.thrown # "none" THEN [w EXCEPT !.pc = "terminated"]
                                  ELSE [w EXCEPT !.quantum_tasks = Append(@, o.task)]
    /\ UNCHANGED <<shotVars, channel, registry, codec, startup>>

\* after the loop over qpu_ids: simulate and result.dump(); simulate reads
\* quantum_tasks[0], which is undefined for an empty vector, and lets through
\* the exceptions of the shots
BrokerSimulate ==
    /\ broker.pc = "recv"
    /\ broker.i \notin DOMAIN qpu_ids
    /\ \E how \in IF broker.quantum_tasks = <<>> THEN {"crashed", "garbage"}
                       ELSE IF Throws(broker.quantum_tasks) THEN {"terminated"}
                       ELSE {"result"} :
          broker' =
            IF how \in {"crashed", "terminated"} THEN [broker EXCEPT !.pc = how]
            ELSE LET result_str == IF how = "garbage" THEN GarbageResult
                                   ELSE ResultOf(broker.quantum_tasks)
                 IN  [broker EXCEPT !.pc = "send", !.k = 1, !.result_str = result_str,
                         !.rounds = Append(@, [qpus_working |-> broker.qpus_working,
                                               quantum_tasks |-> broker.quantum_tasks,
                                               result_str |-> result_str])]
    /\ UNCHANGED <<shotVars, channel, registry, codec, startup>>

\* one turn of the loop over qpus_working: send_info(result_str, qpu)
BrokerSend ==
    /\ broker.pc = "send"
    /\ broker.k \in DOMAIN broker.qpus_working
    /\ LET qpu == broker.qpus_working[broker.k] IN
       broker' = [broker EXCEPT !.k = @ + 1,
                     !.outbox[qpu] = Append(@, broker.result_str),
                     !.results[qpu] = Append(@, [round |-> broker.round,
                                                 result_str |-> broker.result_str])]
    /\ UNCHANGED <<shotVars, channel, registry, codec, startup>>

\* qpus_working.clear(); quantum_tasks.clear(); and the next turn of while (true)
BrokerClear ==
    /\ broker.pc = "send"
    /\ broker.k \notin DOMAIN broker.qpus_working
    /\ broker' = [broker EXCEPT !.pc = "recv", !.i = 1, !.qpus_working = <<>>,
                                !.quantum_tasks = <<>>, !.round = @ + 1]
    /\ UNCHANGED <<shotVars, channel, registry, codec, startup>>

NextBroker ==
    \/ \E p \in Qpus : QpuExecute(p) \/ QpuResult(p)
    \/ BrokerRecv \/ BrokerSimulate \/ BrokerSend \/ BrokerClear

\* an executor in run and its QPUs
SpecBroker == InitBroker /\ [][NextBroker]_vars

(* ------------------- the constructors of executor and QPUs ------------- *)

\* the constructors are entered with the registry file as the job finds it
InitStartup ==
    /\ ShotIdle
    /\ channel = NewChannel
    /\ registry = NewRegistry(<<>>)
    /\ codec = NewCodec(NewTask(""))
    /\ broker = NewBroker
    /\ \E file \in FilesAtStart : startup = NewStartup(file)

\* QulacsQCSimulator: classical_channel.publish()
QpuPublish(p) ==
    /\ startup.qpu[p].pc = "publish"
    /\ startup' = [startup EXCEPT !.file = @ \cup {KeyOfQpu(p)},
                                  !.qpu[p].pc = "recv"]
    /\ UNCHANGED <<shotVars, channel, registry, codec, broker>>

\* QulacsQCSimulator: recv_info(executor_id) returns the ready marker
QpuReady(p) ==
    /\ startup.qpu[p].pc = "recv"
    /\ startup.qpu[p].ready > 0
    /\ startup' = [startup EXCEPT !.qpu[p].ready = @ - 1,
                                  !.qpu[p].pc = "connect"]
    /\ UNCHANGED <<shotVars, channel, registry, codec, broker>>

\* QulacsQCSimulator: classical_channel.connect(executor_id): communications is
\* read from the file, and communications.at(executor_id) throws if the file has
\* no such key
QpuConnect(p) ==
    /\ startup.qpu[p].pc = "connect"
    /\ LET communications == IF executor_id \in startup.qpu[p].communications
                             THEN startup.qpu[p].communications
                             ELSE startup.file
       IN  startup' = [startup EXCEPT
              !.qpu[p].communications = communications,
              !.qpu[p].lookup = IF executor_id \in communications THEN "found"
                                ELSE "out_of_range",
              !.qpu[p].pc = IF executor_id \in communications THEN "execute"
                            ELSE "terminated"]
    /\ UNCHANGED <<shotVars, channel, registry, codec, broker>>

\* CunqaExecutor: one pass of the do-while over the keys of the file
ExecutorScan ==
    /\ startup.pc = "scan"
    /\ LET ids == startup.ids \cup {k \in startup.file : k.job = JobOfExecutor}
       IN  startup' = [startup EXCEPT
              !.ids = ids,
              !.pc = IF Cardinality(ids) # Len(qpu_ids) THEN "scan" ELSE "publish"]
    /\ UNCHANGED <<shotVars, channel, registry, codec, broker>>

\* CunqaExecutor, loop over ids: qpu_ids.push_back(key); classical_channel.publish()
ExecutorPublish ==
    /\ startup.pc = "publish"
    /\ startup.i <= Len(qpu_ids)
    /\ startup' = [startup EXCEPT !.file = @ \cup {KeyOfExecutor}, !.pc = "connect"]
    /\ UNCHANGED <<shotVars, channel, registry, codec, broker>>

\* classical_channel.connect(key)
ExecutorConnect ==
    /\ startup.pc = "connect"
    /\ LET key == KeyOfQpu(qpu_ids[startup.i])
           communications == IF key \in startup.communications
                             THEN startup.communications ELSE startup.file
       IN  startup' = [startup EXCEPT
              !.communications = communications,
              !.sockets = IF key \in communications THEN @ \cup {key} ELSE @,
              !.pc = IF key \in communications THEN "send" ELSE "terminated"]
    /\ UNCHANGED <<shotVars, channel, registry, codec, broker>>

\* classical_channel.send_info("ready", key), and the step of the loop
ExecutorReady ==
    /\ startup.pc = "send"
    /\ LET p == qpu_ids[startup.i]
       IN  startup' = [startup EXCEPT
              !.qpu[p].ready = @ + 1,
              !.qpu[p].published = \E k \in startup.file :
                                      k.job = JobOfExecutor /\ k \notin {KeyOfQpu(q) : q \in Qpus},
              !.i = @ + 1,
              !.pc = IF startup.i = Len(qpu_ids) THEN "run" ELSE "publish"]
    /\ UNCHANGED <<shotVars, channel, registry, codec, broker>>

NextStartup ==
    \/ \E p \in Qpus : QpuPublish(p) \/ QpuReady(p) \/ QpuConnect(p)
    \/ ExecutorScan \/ ExecutorPublish \/ ExecutorConnect \/ ExecutorReady

\* the start of a job: the constructors of the executor and of its QPUs, in any
\* interleaving
SpecStartup == InitStartup /\ [][NextStartup]_vars

\* peers send to a channel whose owner calls recv
NextChannel ==
    \E p \in Senders : ChannelSend(p) \/ RecvStored(p) \/ RecvEnter(p) \/ RecvFrames(p)

\* a classical channel, its peers and its owner
SpecChannel == InitChannel /\ [][NextChannel]_vars

Next == WhileEnter \/ Skip \/ Dispatch \/ DispatchCrash \/ ForEnd \/ Return

\* execute_shot_ of the Cunqa adapter (the AER adapter schedules identically)
Spec == Init /\ [][Next]_vars

\* execute_shot_ of the Munich adapter
SpecMunich == InitMunich /\ [][Next]_vars

\* execute_shot_ of the Cunqa adapter on batches of three tasks
Spec3 == Init3 /\ [][Next]_vars

\* execute_shot_ of the Cunqa adapter on batches of two independent pairs
Spec4 == Init4 /\ [][Next]_vars

\* execute_shot_ of the Cunqa adapter with the state vector of the executor
SpecQ == InitQ /\ [][Next]_vars

\* execute_shot_ of the Munich adapter with the state vector of the executor
SpecQMunich == InitQMunich /\ [][Next]_vars

\* execute_shot_ of the Cunqa adapter on circuits with nested instructions
SpecNested == InitNested /\ [][Next]_vars

\* execute_shot_ of the Cunqa adapter on three tasks, the first opening a cat region
SpecExpose3 == InitExpose3 /\ [][Next]_vars

\* the shot, and the visit of a TaskState the dispatch inserted
NextPeers == Next \/ DispatchInserted

\* execute_shot_ of the Cunqa adapter on batches that name peers outside the batch
SpecPeers == InitPeers /\ [][NextPeers]_vars

\* execute_shot_ from its entry on circuits of local instructions, which pop nothing
NextLocal ==
    \/ SetupTask \/ SetupEnd \/ WhileEnter \/ Skip \/ Dispatch \/ DispatchEnd
    \/ ForEnd \/ Return

\* simulate(classical_channel): the loop over the shots around execute_shot_
NextSim ==
    \/ ShotEnter \/ SetupTask \/ SetupEnd \/ WhileEnter \/ Skip \/ Dispatch
    \/ ForEnd \/ Return \/ ShotDone \/ SimulateReturn

\* simulate(classical_channel) of the Cunqa adapter, two tasks of local instructions
SpecSim == InitSim /\ [][NextSim]_vars

\* simulate(classical_channel) as CunqaExecutor::run calls it
NextErr == NextSim \/ Uncaught

\* simulate(classical_channel) of the Cunqa adapter on inputs that meet errors
SpecErr == InitErr /\ [][NextErr]_vars

\* execute_shot_ from its entry on tasks that neither block nor are empty
NextGates == SetupTask \/ SetupEnd \/ WhileEnter \/ Skip \/ Dispatch \/ ForEnd \/ Return

\* the entry of execute_shot_ of adapter a with two tasks of two qubits and local gates
InitGates(a) == InitSetup(a, GateInputs(MaxLen))

InitGatesCunqa == InitGates("Cunqa")

InitGatesMunich == InitGates("Munich")

\* execute_shot_ of the Cunqa adapter on gates of two qubits
SpecGates == InitGatesCunqa /\ [][NextGates]_vars

\* execute_shot_ of the Munich adapter on gates of two qubits
SpecGatesMunich == InitGatesMunich /\ [][NextGates]_vars

\* execute_shot_ of the Maestro adapter, whose result can be written out of range
NextMaestro == NextLocal \/ ReturnCrash

\* execute_shot_ of the Cunqa adapter from its entry, three tasks of any config
SpecSetup == InitSetup3 /\ [][NextLocal]_vars

\* execute_shot_ of the Cunqa adapter from its entry, two tasks of local instructions
SpecLocal == InitLocal /\ [][NextLocal]_vars

\* execute_shot_ of the Maestro adapter from its entry, two tasks of local instructions
SpecMaestro == InitMaestro /\ [][NextMaestro]_vars

(* ------------------------ vocabulary of the claims --------------------- *)

\* the latest dispatch was a QSEND of task t, and the executor is followed
JustSent(t) ==
    /\ psi # <<>> /\ pc \in {"for", "while", "returned"}
    /\ klog.task = t /\ klog.inst.name = "qsend"

RemoteNames == {"qsend", "qrecv", "expose", "rcontrol"}

\* the remote operations of task t toward peer p, in circuit order
RemoteOps(t, p) ==
    SelectSeq(circuit[t], LAMBDA i : i.name \in RemoteNames /\ i.qpu = p)

\* the opcode on the peer that answers the opcode n
Partner(n) ==
    CASE n = "qsend" -> "qrecv" [] n = "qrecv" -> "qsend"
      [] n = "expose" -> "rcontrol" [] n = "rcontrol" -> "expose" [] OTHER -> "none"

\* every QSEND has its QRECV and every EXPOSE its RCONTROL on the peer, pair by pair
\* in circuit order, and an RCONTROL nests local gates only
WellFormed ==
    /\ \A t \in Tasks : \A i \in DOMAIN circuit[t] :
          \A j \in DOMAIN circuit[t][i].instructions :
             circuit[t][i].instructions[j].name \notin RemoteNames
    /\ \A t \in Tasks : \A p \in Tasks \ {t} :
          /\ Len(RemoteOps(t, p)) = Len(RemoteOps(p, t))
          /\ \A i \in DOMAIN RemoteOps(t, p) :
                RemoteOps(p, t)[i].name = Partner(RemoteOps(t, p)[i].name)

\* the range-for stands on task t and will dispatch its next instruction
Dispatching(t) == pc = "for" /\ pos <= Len(order) /\ Cur = t /\ ~Skipped(t)

\* the instruction under the cursor of task t
CurInst(t) == circuit[t][it[t]]

\* the calls of the latest dispatch with an event among evs
CallsOf(evs) == SelectSeq(klog.calls, LAMBDA c : c.ev \in evs)

\* qc_meas[p] is absent or empty
NothingFrom(p) == p \notin DOMAIN qc_meas \/ qc_meas[p] = <<>>

\* the task a value on a stack was pushed for: the peer of the instruction that
\* measured it
ReceiverOf(v) == circuit[v.src][v.at].qpu

\* the opcode that consumes a value of the given kind
ConsumerOf(kind) ==
    CASE kind \in {"data", "anc"} -> "qrecv"
      [] kind = "cat" -> "rcontrol"
      [] kind = "rc" -> "expose"
      [] OTHER -> "none"

\* the quantum-channel region opened by task p is not yet complete: its QSEND
\* outcomes wait on qc_meas[p] for the QRECV, or its first EXPOSE has run and
\* its closing EXPOSE has not
RegionOpen(p) ==
    \/ cat_entangled[p]
    \/ /\ p \in DOMAIN qc_meas
       /\ \E i \in DOMAIN qc_meas[p] : qc_meas[p][i].kind \in {"data", "anc"}

\* the call acts on a communication qubit
TouchesComm(c) ==
    \/ c.ev = "measure" /\ c.key \in {"n-1", "n-2"}
    \/ /\ c.ev \in {"gate", "gate_if"}
       /\ \E i \in DOMAIN c.val : c.val[i] \in {"n-1", "n-2"}

(* -------------------------------- claims ------------------------------- *)

\* C1: for a batch in which every QSEND has its QRECV on the peer and every
\* EXPOSE/RCONTROL region is well-formed, execute_shot_ returns only with every
\* task finished, whatever the order of the tasks inside a round.
C1_WellFormedBatchFinishes ==
    (pc = "returned" /\ WellFormed) => \A t \in Tasks : finished[t] /\ it[t] = End(t)

\* C2: the scheduler loop exits and the result bitstring is assembled only when
\* every task of the batch is finished.
C2_ExitOnlyWhenAllFinished ==
    result = "result_bits" => \A t \in Tasks : finished[t]

\* C3: a QRECV with no QSEND of its peer in the shot (a round without progress
\* while the task is not finished) ends the shot with a DeadlockError, not with a
\* normally returned bitstring.
C3_UnmatchedQRecvIsDeadlockError ==
    \A t \in Tasks :
       (/\ pc = "returned" /\ ~finished[t] /\ blocked[t]
        /\ CurInst(t).name = "qrecv"
        /\ RemoteOps(CurInst(t).qpu, t) = <<>>)
       => result = "DeadlockError"

\* C4: the cursor of a task advances by exactly one after a dispatch that returns
\* with blocked = false and stays after one that returns with blocked = true; the
\* visit of a blocked task dispatches nothing and no other step moves a cursor.
C4_CursorFollowsBlocked ==
    [][\A t \in Tasks :
         /\ (Dispatching(t) /\ pc' = "for")
               => it'[t] = IF blocked'[t] THEN it[t] ELSE it[t] + 1
         /\ ~Dispatching(t) => it'[t] = it[t]
         /\ (pc = "for" /\ pos <= Len(order) /\ Cur = t /\ blocked[t])
               => UNCHANGED <<it, blocked, finished, cat_entangled, qc_meas, ended, klog>>
      ]_vars

\* C4 witness: one task stands blocked on its first instruction after its dispatch
\* while another has advanced past its own.
C4_Witness ==
    \E t \in Tasks : \E u \in Tasks \ {t} :
       /\ blocked[t] /\ it[t] = 1 /\ klog.task = t /\ klog.inst.name = "qrecv"
       /\ it[u] = 2

\* C5: a QSEND of task A pushes exactly two values onto qc_meas[A], the data
\* outcome then the ancilla outcome; a QRECV that finds two values on
\* qc_meas[A] pops the ancilla outcome first, which conditions the X on n-1,
\* and the data outcome second, which conditions the Z.
C5_QSendQRecvOrder ==
    /\ klog.inst.name = "qsend" =>
          LET pushes == CallsOf({"push"}) IN
          /\ Len(pushes) = 2
          /\ pushes[1].key = klog.task /\ pushes[1].cond.kind = "data"
          /\ pushes[2].key = klog.task /\ pushes[2].cond.kind = "anc"
    /\ (klog.inst.name = "qrecv" /\ Len(CallsOf({"pop"})) = 2) =>
          LET pops == CallsOf({"pop"})
              gates == CallsOf({"gate_if"}) IN
          /\ pops[1].key = klog.inst.qpu /\ pops[1].cond.kind = "anc"
          /\ pops[2].key = klog.inst.qpu /\ pops[2].cond.kind = "data"
          /\ gates[1].key = "x" /\ gates[1].cond = pops[1].cond
          /\ gates[2].key = "z" /\ gates[2].cond = pops[2].cond

\* C6: a QRECV from peer p dispatched while qc_meas[p] is absent or empty sets
\* the task blocked and leaves qc_meas and the cursor unchanged.
C6_QRecvBlocksOnEmpty ==
    [][\A t \in Tasks :
         (Dispatching(t) /\ CurInst(t).name = "qrecv" /\ NothingFrom(CurInst(t).qpu))
         => (blocked'[t] /\ qc_meas' = qc_meas /\ it'[t] = it[t])
      ]_vars

\* C7: the first EXPOSE of a region by task A toward B pushes exactly one value
\* onto qc_meas[A], sets A.cat_entangled and A.blocked, clears B.blocked and
\* leaves the cursor of A on the EXPOSE.
C7_FirstExpose ==
    [][\A t \in Tasks :
         (Dispatching(t) /\ CurInst(t).name = "expose" /\ ~cat_entangled[t])
         => /\ pc' = "for"
            /\ DOMAIN qc_meas' = DOMAIN qc_meas \cup {t}
            /\ \A k \in DOMAIN qc_meas' \ {t} : qc_meas'[k] = qc_meas[k]
            /\ Len(qc_meas'[t]) = Len(At(qc_meas, t)[t]) + 1
            /\ SubSeq(qc_meas'[t], 1, Len(qc_meas'[t]) - 1) = At(qc_meas, t)[t]
            /\ qc_meas'[t][Len(qc_meas'[t])].kind = "cat"
            /\ cat_entangled'[t] /\ blocked'[t]
            /\ ~blocked'[CurInst(t).qpu]
            /\ it'[t] = it[t] /\ CurInst(t)' = CurInst(t)
      ]_vars

\* C7 witness: a task stands blocked and cat-entangled on the EXPOSE it has just
\* dispatched, its measurement on top of its own stack.
C7_Witness ==
    \E t \in Tasks :
       /\ klog.task = t /\ klog.inst.name = "expose"
       /\ cat_entangled[t] /\ blocked[t] /\ ~finished[t]
       /\ CurInst(t).name = "expose"
       /\ t \in DOMAIN qc_meas /\ qc_meas[t] # <<>>
       /\ qc_meas[t][Len(qc_meas[t])] = Val("cat", t, it[t])

\* C8: the dispatch of an EXPOSE by a task with cat_entangled true pops exactly
\* one value from the stack of its peer, sets cat_entangled back to false and
\* advances the cursor.
C8_ClosingExpose ==
    [][\A t \in Tasks :
         (Dispatching(t) /\ CurInst(t).name = "expose" /\ cat_entangled[t] /\ pc' = "for")
         => LET p == CurInst(t).qpu IN
            /\ ~NothingFrom(p)
            /\ qc_meas' = [qc_meas EXCEPT ![p] = SubSeq(@, 1, Len(@) - 1)]
            /\ ~cat_entangled'[t]
            /\ it'[t] = it[t] + 1
      ]_vars

\* C9: an RCONTROL of task B toward A (its nested instructions local gates)
\* blocks without advancing when qc_meas[A] is absent or empty; otherwise it pops
\* exactly one value from qc_meas[A], pushes exactly one value of its own onto
\* qc_meas[B], clears A.blocked and erases the entry qc_meas[A].
C9_RControl ==
    [][\A t \in Tasks :
         (/\ Dispatching(t) /\ CurInst(t).name = "rcontrol" /\ pc' = "for"
          /\ \A j \in DOMAIN CurInst(t).instructions :
                CurInst(t).instructions[j].name \notin RemoteNames)
         => LET p == CurInst(t).qpu IN
            IF NothingFrom(p)
            THEN blocked'[t] /\ it'[t] = it[t] /\ qc_meas' = qc_meas
            ELSE /\ Len(SelectSeq(klog'.calls,
                          LAMBDA c : c.ev \in {"pop", "pop_empty"} /\ c.key = p)) = 1
                 /\ Len(SelectSeq(klog'.calls,
                          LAMBDA c : c.ev = "push" /\ c.cond.kind = "rc")) = 1
                 /\ t \in DOMAIN qc_meas' /\ qc_meas'[t] # <<>>
                 /\ qc_meas'[t][Len(qc_meas'[t])] = Val("rc", t, it[t])
                 /\ ~blocked'[p]
                 /\ p \notin DOMAIN qc_meas'
      ]_vars

\* C10: at the end of the shot of a well-formed batch qc_meas contains no entries.
C10_QcMeasEmptyAtEnd ==
    (pc = "returned" /\ WellFormed) => DOMAIN qc_meas = {}

\* C11: in a well-formed batch of three tasks, a value that sender p pushed onto
\* qc_meas[p] for receiver r is popped only by a dispatch of r, by the opcode that
\* answers the push, and an erase of qc_meas[p] by an RCONTROL discards only
\* values pushed for the task that erases.
C11_ValuesReachTheirReceiver ==
    WellFormed =>
       \A i \in DOMAIN klog.calls :
          LET c == klog.calls[i] IN
          /\ c.ev = "pop" =>
                /\ ReceiverOf(c.cond) = klog.task
                /\ ConsumerOf(c.cond.kind) = klog.inst.name
          /\ c.ev = "erase" =>
                \A j \in DOMAIN c.val : ReceiverOf(c.val[j]) = klog.task

\* C12: in a batch of two independent sender/receiver pairs, while the region
\* opened by a task p is not complete (from its QSEND to the end of the matching
\* QRECV, from its first EXPOSE to the end of its closing EXPOSE), no dispatch
\* of a remote operation by a task of the other pair acts on the communication
\* qubits n-2 and n-1.
C12_RegionsDoNotOverlap ==
    [][\A t \in Tasks :
         (Dispatching(t) /\ CurInst(t).name \in RemoteNames /\ pc' = "for")
         => \A p \in Tasks \ {t, CurInst(t).qpu} :
               RegionOpen(p) =>
                  \A i \in DOMAIN klog'.calls : ~TouchesComm(klog'.calls[i])
      ]_vars

\* C13: after every QSEND, whatever the two measurement outcomes were, the sent
\* qubit q of the sender and the communication qubit n-2 are both in |0>.
C13_QSendResets ==
    \A t \in Tasks :
        JustSent(t) => /\ IsZero(psi, QubitOf("q", t, klog.inst))
                       /\ IsZero(psi, n_qubits - 2)

\* the QSENDs of src toward dst and the QRECVs of dst from src, in the order of
\* their dispatch: the k-th of one pairs with the k-th of the other
Between(h, src, dst) == SelectSeq(h, LAMBDA e : e.src = src /\ e.dst = dst)

\* C14: for every pairing (A: QSEND q -> B; B: QRECV r <- A) of a shot of a
\* well-formed batch, the reduced state of B's qubit r after the QRECV is the
\* reduced state A's qubit q had before the QSEND.
C14_TeleportKeepsState ==
    WellFormed =>
        \A a \in Tasks, b \in Tasks :
            LET S == Between(sent, a, b)
                R == Between(received, a, b)
            IN  \A k \in DOMAIN S \cap DOMAIN R : R[k].rho = S[k].rho

\* C15: in every round of the scheduler the range-for visits the tasks in the
\* order of the quantum_tasks sequence: the task at position pos of the round
\* is the pos-th task inserted.
C15_VisitInInsertionOrder ==
    (pc = "for" /\ pos <= Len(order)) => Cur = quantum_tasks[pos]

\* C16: once the setup loop has passed a task t, zero_qubit[t] is the sum of
\* num_qubits and zero_clbit[t] the sum of num_clbits of the tasks inserted
\* before t, at the start of the scheduler loop and in every later state of
\* the shot.
C16_ZeroOffsets ==
    \A t \in Tasks :
       (pc # "setup" \/ IndexOf(t) < si)
       => /\ zero_qubit[t] = SumBefore(IndexOf(t), "num_qubits")
          /\ zero_clbit[t] = SumBefore(IndexOf(t), "num_clbits")

\* C16 witness: a shot of three tasks has returned, the registers of the first
\* two tasks have different sizes and the third task starts after both.
C16_Witness ==
    /\ pc = "returned" /\ Cardinality(Tasks) = 3
    /\ config["A"].num_qubits # config["B"].num_qubits
    /\ config["A"].num_clbits # config["B"].num_clbits
    /\ zero_qubit["C"] = config["A"].num_qubits + config["B"].num_qubits
    /\ zero_clbit["C"] = config["A"].num_clbits + config["B"].num_clbits
    /\ zero_clbit["B"] > 0

\* C17: the string a shot returns has length n_clbits, and for every global
\* classical bit k its character at position n_clbits - k - 1 (counted from 0)
\* is '1' exactly when the classical bit k has been written in the shot and its
\* last write was true.
C17_ResultBitsFollowCreg ==
    pc = "returned" =>
       /\ Len(result_bits) = n_clbits
       /\ \A k \in 0..(n_clbits - 1) :
             (result_bits[(n_clbits - k - 1) + 1] = "1")
                <=> (k \in DOMAIN written /\ written[k])

RECURSIVE SumOf(_, _)

\* the sum of the counts of the bitstrings of the set S
SumOf(mc, S) ==
    IF S = {} THEN 0
    ELSE LET k == CHOOSE x \in S : TRUE IN mc[k] + SumOf(mc, S \ {k})

\* a step that moves the loop variable of simulate adds one to the count of the
\* bitstring the shot returned and changes no other count
OneCountPerShot ==
    (shot' # shot) =>
        /\ shot' = shot + 1
        /\ DOMAIN meas_counter' = DOMAIN meas_counter \cup {result_bits}
        /\ \A k \in DOMAIN meas_counter' :
              meas_counter'[k] =
                  (IF k \in DOMAIN meas_counter THEN meas_counter[k] ELSE 0)
                  + (IF k = result_bits THEN 1 ELSE 0)

\* the counts change at no other step
CountsOnlyPerShot == (meas_counter' # meas_counter) => (shot' # shot)

\* C18: when simulate returns the counts of a batch with shots = S they sum to S;
\* every shot adds one to the count of the bitstring it returned, changes no other
\* count, and the counts change at no other step.
C18_CountsSumToShots ==
    /\ [](pc = "counts" => SumOf(meas_counter, DOMAIN meas_counter) = shots)
    /\ [][OneCountPerShot /\ CountsOnlyPerShot]_vars

\* C18 witness: a simulate of at least two shots has returned and two of its shots
\* returned the same bitstring
C18_Witness ==
    /\ pc = "counts" /\ shots >= 2
    /\ \E k \in DOMAIN meas_counter : meas_counter[k] >= 2

\* C19: a task whose instruction list is empty is never dispatched, and a shot
\* of a batch of such tasks does not end otherwise than by returning.
C19_EmptyTaskNeverDispatched ==
    /\ \A t \in Tasks : circuit[t] = <<>> => klog.task # t
    /\ (\A t \in Tasks : circuit[t] = <<>>) => pc \notin {"crashed", "failed"}

\* C20: the dispatch of a COPY whose l_clbits and r_clbits differ in length ends
\* the shot with the runtime_error and leaves creg as it was; the dispatch of a
\* COPY of two empty lists leaves creg as it was and the shot goes on.
C20_CopyArity ==
    [][\A t \in Tasks :
         (Dispatching(t) /\ it[t] \in DOMAIN circuit[t] /\ CurInst(t).name = "copy")
         => LET l == CurInst(t).l_clbits
                r == CurInst(t).r_clbits
            IN  /\ Len(l) # Len(r)
                      => (pc' = "failed" /\ result' = "runtime_error" /\ creg' = creg)
                /\ (l = <<>> /\ r = <<>>)
                      => (pc' = "for" /\ result' = result /\ creg' = creg)
      ]_vars

\* C20 witness: a shot has ended with the runtime_error on a COPY of lists of
\* different sizes, after a measure of the same task had written creg.
C20_Witness ==
    /\ pc = "failed" /\ result = "runtime_error"
    /\ klog.inst.name = "copy" /\ Len(klog.inst.l_clbits) # Len(klog.inst.r_clbits)
    /\ \E k \in DOMAIN creg : creg[k]

\* the next dispatch of task t is a SEND to an endpoint the channel has no socket for
ChannelError(t) ==
    /\ Dispatching(t) /\ it[t] \in DOMAIN circuit[t]
    /\ CurInst(t).name = "send" /\ CurInst(t).qpu \notin Connected
    /\ CurInst(t).clbits # <<>>

\* task t ends early and the shot goes on: t is finished, what was written to the
\* classical bits is kept, the loop continues and no other task is touched
TaskFatal(t) ==
    /\ finished'[t]
    /\ written' = written
    /\ pc' = "for"
    /\ \A u \in Tasks \ {t} : finished'[u] = finished[u] /\ it'[u] = it[u]

\* C21: when the channel fails during the dispatch of an instruction of task T
\* (a SEND toward an endpoint it has no connection to), T becomes finished, the
\* classical bits already written are kept and the shot continues for the other
\* tasks.
C21_ChannelErrorIsTaskFatal ==
    [][\A t \in Tasks : (ChannelError(t) /\ (pos' # pos \/ pc' # pc)) => TaskFatal(t)]_vars

\* the latest dispatch was on an instruction of an unknown opcode
MalformedDispatched ==
    /\ klog.task \in Tasks
    /\ klog.inst.name \in {UnknownName} \cup UnsupportedNames

\* C22: an instruction with an unknown opcode aborts the shot and the batch ends
\* with an {ERROR} document: the cursor does not move past the instruction, the
\* scheduler does not go on, and the batch neither ends without a document nor
\* with the counts.
C22_UnknownOpcodeIsBatchFatal ==
    MalformedDispatched =>
        /\ it[klog.task] \in DOMAIN circuit[klog.task]
        /\ circuit[klog.task][it[klog.task]] = klog.inst
        /\ pc \notin {"for", "while", "returned", "shots", "counts", "terminated"}
\* the nested instruction a pair of the history nested of task t stands for
NestedAt(t, e) ==
    LET body == circuit[t][e[1]].instructions
    IN  body[Len(body) - e[2] + 1]

\* no nested instruction is dispatched while an earlier one of the same enclosing
\* instruction has left the task blocked
NoSubWhileBlocked == \A i \in DOMAIN klog.calls : klog.calls[i].ev # "sub_blocked"

\* within a shot only a nested instruction that can block (a receive) is
\* dispatched more than once at one position of the cursor
NoSubTwice ==
    \A t \in Tasks : \A i, j \in DOMAIN nested[t] :
        (i < j /\ nested[t][i] = nested[t][j]) => NestedAt(t, nested[t][i]).name = "qrecv"

\* C30: the instructions nested in a CIF or an RCONTROL are dispatched in nested
\* order and at most once: none is dispatched after an earlier one has blocked
\* the task, and none that completed is dispatched again after the unblock
C30_NestedDispatchBlocks == NoSubWhileBlocked /\ NoSubTwice

\* the messages peer p has sent, in send order
SentBy(p) == [k \in 1..channel.sends[p] |-> <<p, k>>]

\* the messages the recv calls with origin p have returned, in call order
ReturnedFor(p) ==
    LET Asked(e) == e.origin = p
        r == SelectSeq(channel.returned, Asked)
    IN  [k \in DOMAIN r |-> r[k].data]

\* the messages of sender p among those the recv calls have returned
ReturnedFrom(p) ==
    LET Sender(e) == e.data[1] = p
        r == SelectSeq(channel.returned, Sender)
    IN  [k \in DOMAIN r |-> r[k].data]

\* the data of a sequence of frames
DataOf(frames) == [k \in DOMAIN frames |-> frames[k].data]

\* sequence a is the beginning of sequence b
IsPrefix(a, b) == Len(a) <= Len(b) /\ \A k \in DOMAIN a : a[k] = b[k]

\* C23: what successive recv calls with origin p return is the beginning of what
\* p has sent, in send order, whatever the other peers send and whatever recv
\* calls for other origins are made in between
C23_FifoPerSender == \A p \in Senders : IsPrefix(ReturnedFor(p), SentBy(p))

\* two peers have sent, and a recv for one has returned its second message after
\* a message of the other was read and stored in between
C23_Witness ==
    \E p \in Senders : \E q \in Senders \ {p} :
        /\ ReturnedFor(p) = <<<<p, 1>>, <<p, 2>>>>
        /\ channel.message_queue[q] # <<>>
        /\ ReturnedFor(q) # <<>>

\* C24: a recv returns only messages of its origin, and every message sent is in
\* exactly one place: returned to a recv of its sender, stored in the buffer of
\* its sender, or still on the socket, in this order
C24_NothingLostNorMisdelivered ==
    /\ \A k \in DOMAIN channel.returned :
          channel.returned[k].data[1] = channel.returned[k].origin
    /\ \A p \in Senders :
          SentBy(p) = ReturnedFrom(p) \o channel.message_queue[p] \o DataOf(channel.pipe[p])

\* a recv for p has read and stored a message of q, and a later recv for q has
\* returned it
C24_Witness ==
    \E p \in Senders : \E q \in Senders \ {p} :
        \E i, j \in DOMAIN channel.returned :
            /\ i < j
            /\ channel.returned[i].origin = p
            /\ channel.returned[j] = [origin |-> q, data |-> <<q, 1>>]
            /\ channel.pipe[q] = <<>> /\ channel.sends[q] = 1

HasPrefix(key, rm_key) ==
    Len(rm_key) <= Len(key) /\ \A i \in DOMAIN rm_key : key[i] = rm_key[i]

\* a remove_from_file that has written
Removals == {k \in DOMAIN registry.removed : registry.removed[k].written}

C28_RoundTrip ==
    /\ codec.pc = "decoded" =>
          /\ codec.decoded.thrown = "none"
          /\ codec.decoded.task = codec.task
    /\ (codec.pc = "encoded" /\ codec.task.circuit = <<>>) => codec.text = <<>>

\* the opcodes that take parameters
Parametric(instruction) == instruction.params # <<>>

\* how many of the first i instructions of a circuit take parameters
RankIn(instrs, i) == Cardinality({l \in 1..i : Parametric(instrs[l])})

\* C29: an update with k values leaves the number of instructions, changes the
\* parameters of the first k instructions that take parameters and nothing
\* else, also when more than k instructions take parameters
C29_UpdateIsPositional ==
    codec.pc = "updated" =>
        LET old == codec.task.circuit
            new == codec.decoded.task.circuit
            k == Len(codec.params)
        IN  /\ ~codec.decoded.crashed
            /\ codec.decoded.thrown = "none"
            /\ Len(new) = Len(old)
            /\ \A i \in DOMAIN old :
                  IF Parametric(old[i]) /\ RankIn(old, i) <= k
                  THEN /\ new[i].params # old[i].params
                       /\ [new[i] EXCEPT !.params = old[i].params] = old[i]
                  ELSE new[i] = old[i]

\* the QPUs whose message of round r is not empty, in the order of qpu_ids
Contributors(r) ==
    LET Sent(p) == broker.sent[p][r] # <<>>
    IN  SelectSeq(qpu_ids, Sent)

\* the results sent to QPU p in round r
ResultsIn(p, r) ==
    LET InRound(e) == e.round = r
    IN  SelectSeq(broker.results[p], InRound)

\* the rounds the executor has begun: one it has left by the end of its loop
\* body, by an exception or by the end of its process, and those before
RoundsBegun ==
    IF broker.pc \in {"terminated", "crashed"} THEN 1..broker.round
    ELSE 1..(broker.round - 1)

\* C27: once the executor has left a round, every QPU whose message of the round
\* was not empty has been sent one result, the same for all and made from the
\* tasks of these QPUs, and a QPU whose message was empty has been sent none
C27_OneResultPerContributor ==
    \A r \in RoundsBegun : \A p \in Qpus :
        Len(broker.sent[p]) >= r =>
            IF broker.sent[p][r] = <<>> THEN ResultsIn(p, r) = <<>>
            ELSE /\ r \in DOMAIN broker.rounds
                 /\ ResultsIn(p, r) = <<[round |-> r, result_str |-> broker.rounds[r].result_str]>>
                 /\ broker.rounds[r].qpus_working = Contributors(r)
                 /\ broker.rounds[r].result_str = ResultOf(broker.rounds[r].quantum_tasks)
                 /\ Len(broker.rounds[r].quantum_tasks) = Len(Contributors(r))

(* ------------------------------- C40 ----------------------------------- *)

\* the value a read of G.creg[k] gives: false for a key the map does not hold
RegVal(reg, k) == IF k \in DOMAIN reg THEN reg[k] ELSE FALSE

\* the task under the cursor is about to run a COPY of two lists of one size
CopyDispatched(t) ==
    /\ Dispatching(t) /\ it[t] \in DOMAIN circuit[t]
    /\ CurInst(t).name = "copy"
    /\ Len(CurInst(t).l_clbits) = Len(CurInst(t).r_clbits)

\* the classical bits a COPY of task t with the left list l writes
LeftBits(t, l) == {l[i] + zero_clbit[t] : i \in DOMAIN l}

\* C40 as stated: a COPY (here: one whose l_clbits names no bit twice) sets each
\* creg[l_i + zero_clbit] to the value creg[r_i + zero_clbit] had before the COPY
\* began and leaves every other classical bit unchanged, also when l_clbits and
\* r_clbits overlap.
C40_CopyFromValuesBefore ==
    [][\A t \in Tasks :
         (CopyDispatched(t)
            /\ \A i, j \in DOMAIN CurInst(t).l_clbits :
                  CurInst(t).l_clbits[i] = CurInst(t).l_clbits[j] => i = j)
         => LET l == CurInst(t).l_clbits
                r == CurInst(t).r_clbits
                z == zero_clbit[t]
            IN  /\ \A i \in DOMAIN l : RegVal(creg', l[i] + z) = RegVal(creg, r[i] + z)
                /\ \A k \in (DOMAIN creg \cup DOMAIN creg') \ LeftBits(t, l) :
                      RegVal(creg', k) = RegVal(creg, k)
      ]_vars

\* the pairs before the i-th whose left bit is the bit k
WritersBefore(l, k, i) == {j \in 1..(i - 1) : l[j] = k}

\* the greatest element of a non-empty set of numbers
Last(S) == CHOOSE j \in S : \A k \in S : k <= j

RECURSIVE ValueRead(_, _, _, _, _)

\* the value the i-th pair of a COPY reads: the one the last earlier pair that
\* wrote its right bit read, or the value of the bit before the COPY
ValueRead(reg, z, l, r, i) ==
    IF WritersBefore(l, r[i], i) = {}
    THEN RegVal(reg, r[i] + z)
    ELSE ValueRead(reg, z, l, r, Last(WritersBefore(l, r[i], i)))

\* C40 amended: the pairs of a COPY take effect in list order. Each creg[l_i +
\* zero_clbit] ends with the value the last pair naming it read, a pair reads the
\* value an earlier pair of the same COPY wrote to its right bit, or else the
\* value from before the COPY, and every bit not named in l_clbits is unchanged.
C40_CopyInListOrder ==
    [][\A t \in Tasks :
         CopyDispatched(t)
         => LET l == CurInst(t).l_clbits
                r == CurInst(t).r_clbits
                z == zero_clbit[t]
            IN  /\ \A k \in LeftBits(t, l) :
                      RegVal(creg', k) =
                         ValueRead(creg, z, l, r, Last(WritersBefore(l, k - z, Len(l) + 1)))
                /\ \A k \in (DOMAIN creg \cup DOMAIN creg') \ LeftBits(t, l) :
                      RegVal(creg', k) = RegVal(creg, k)
                /\ pc' = "for"
      ]_vars

\* C40 witness: a COPY with l_clbits = [0,1] and r_clbits = [1,0] has run on a
\* register whose two bits differed, the second set by a measure, and has left
\* both bits set.
C40_Witness ==
    /\ pc = "for"
    /\ klog.inst.name = "copy"
    /\ klog.inst.l_clbits = <<0, 1>> /\ klog.inst.r_clbits = <<1, 0>>
    /\ circuit[klog.task][1].name = "measure"
    /\ circuit[klog.task][1].clbits = <<1>>
    /\ RegVal(creg, zero_clbit[klog.task])
    /\ RegVal(creg, zero_clbit[klog.task] + 1)

(* ------------------------------- C31 ----------------------------------- *)

\* qubit k holds a definite value: a measurement of it has one possible outcome
Definite(v, k) == Cardinality(Possible(v, k)) = 1

\* the calls of a dispatch made before its executor.apply_gate("h", {n-2}), the
\* first gate of the entanglement generation
BeforeEntangle(calls) ==
    LET at == {i \in DOMAIN calls : /\ calls[i].ev = "gate" /\ calls[i].key = "h"
                                    /\ calls[i].val = <<"n-2">>}
    IN  IF at = {} THEN calls
        ELSE SubSeq(calls, 1, (CHOOSE i \in at : \A j \in at : i <= j) - 1)

\* task t is about to run an entanglement generation: a QSEND, or an EXPOSE that
\* opens a region
Entangling(t) ==
    /\ Dispatching(t) /\ it[t] \in DOMAIN circuit[t]
    /\ \/ CurInst(t).name = "qsend"
       \/ CurInst(t).name = "expose" /\ ~cat_entangled[t]

\* C31: in a shot of a well-formed batch, when a QSEND or an opening EXPOSE is
\* dispatched with the communication qubits n-2 and n-1 in definite values left
\* by earlier measurements, both qubits are in |0> when its H(n-2); CX(n-2, n-1)
\* begins.
C31_EntanglementStartsFromZero ==
    [][\A t \in Tasks :
         (/\ WellFormed
          /\ Entangling(t)
          /\ Definite(psi, n_qubits - 2) /\ Definite(psi, n_qubits - 1)
          /\ klog'.task = t)
         => \A x \in Replay([psi |-> psi, env |-> outcome],
                            BeforeEntangle(klog'.calls), t, CurInst(t)) :
               /\ IsZero(x.psi, n_qubits - 2)
               /\ IsZero(x.psi, n_qubits - 1)
      ]_vars

(* ------------------------------- C32 ----------------------------------- *)

\* the global indices of the qubits task t declares
OwnQubits(t) == zero_qubit[t]..(zero_qubit[t] + config[t].num_qubits - 1)

\* the qubits the gate calls of the latest dispatch were made on
GateQubits ==
    LET calls == CallsOf({"gate"})
    IN  [i \in DOMAIN calls |->
            [k \in DOMAIN calls[i].val |-> QubitOf(calls[i].val[k], klog.task, klog.inst)]]

\* C32: a local gate of task T whose indices lie in T's declared range (the
\* control of CX, CY, CZ, CRX, CRY, CRZ may be -1) is applied to q + zero_qubit for
\* each index q and to n_qubits - 1 for the control -1: to no qubit of another
\* task and to no communication qubit other than n-1 through the sentinel.
C32_LocalGateStaysLocal ==
    (klog.task \in Tasks /\ klog.inst.name \in ControlledNames \cup {"swap", "x"})
    => LET t == klog.task
           qs == klog.inst.qubits
           sentinel == klog.inst.name \in ControlledNames /\ qs[1] = -1
       IN  /\ Len(GateQubits) = 1
           /\ GateQubits[1] = [k \in DOMAIN qs |->
                                 IF k = 1 /\ sentinel THEN n_qubits - 1
                                 ELSE qs[k] + zero_qubit[t]]
           /\ \A k \in DOMAIN GateQubits[1] :
                 \/ GateQubits[1][k] \in OwnQubits(t)
                 \/ k = 1 /\ sentinel /\ GateQubits[1][k] = n_qubits - 1

(* ------------------------------- C33 ----------------------------------- *)

\* the QPUs that have made their lookup of the executor
LookedUp == {p \in Qpus : startup.qpu[p].lookup # "none"}

\* C33: the executor has published its endpoint when it sends a ready marker, a
\* QPU looks the executor up only after it has received the marker, and the
\* lookup finds the endpoint of the executor.
C33_PeerFindsBroker ==
    /\ \A p \in Qpus : startup.qpu[p].ready > 0 => startup.qpu[p].published
    /\ \A p \in LookedUp : startup.qpu[p].published
    /\ \A p \in LookedUp : startup.qpu[p].lookup = "found"

(* ------------------------------- C34 ----------------------------------- *)

\* task t is about to run the closing branch of its EXPOSE
Closing(t) ==
    /\ Dispatching(t) /\ it[t] \in DOMAIN circuit[t]
    /\ CurInst(t).name = "expose" /\ cat_entangled[t]

\* C34: in a shot of a well-formed batch of three tasks, whenever a task runs the
\* closing branch of its EXPOSE toward B, the value on top of qc_meas[B] is one B's
\* RCONTROL toward that task has pushed: nothing a third task addresses to the
\* exposing task makes it run the closing branch earlier.
C34_ExposeClosesAfterRControl ==
    \A t \in Tasks :
        (WellFormed /\ Closing(t))
        => LET p == CurInst(t).qpu IN
           /\ ~NothingFrom(p)
           /\ qc_meas[p][Len(qc_meas[p])].kind = "rc"
           /\ ReceiverOf(qc_meas[p][Len(qc_meas[p])]) = t

(* ------------------------------- C35 ----------------------------------- *)

\* C35: throughout a shot the keys of Ts are the ids of the tasks of the batch,
\* whatever the peers its QSEND, EXPOSE and RCONTROL instructions name, and the
\* range-for of every round passes over these tasks, each once.
C35_OneTaskStatePerTask ==
    /\ DOMAIN blocked = Tasks
    /\ Len(order) = Cardinality(Tasks)
    /\ {order[i] : i \in DOMAIN order} = Tasks

(* ------------------------------- C36 ----------------------------------- *)

\* C36: a process whose registry call has returned holds no lock of the file,
\* and a process that waits for a lock while no other process is inside a
\* registry call is granted it.
C36_CallsReleaseTheLock ==
    \A p \in Procs :
        /\ registry.pc[p] = "idle" => registry.lock[p] = "none"
        /\ (registry.pc[p] = "waiting" /\ \A q \in Procs \ {p} : registry.pc[q] = "idle")
           => Granted(registry, p)

(* ------------------------------- C37 ----------------------------------- *)

\* the job-id component of a key: the key up to its first "_"
JobIdOf(key) ==
    LET us == {i \in DOMAIN key : key[i] = "_"}
        first == CHOOSE i \in us : \A k \in us : i <= k
    IN  IF us = {} THEN key ELSE SubSeq(key, 1, first - 1)

\* C37: the entries a remove_from_file(file, J) has erased are entries of job J:
\* the part of their key before the first "_" is J.
C37_RemoveOnlyOwnJob ==
    \A k \in Removals :
        LET e == registry.removed[k]
        IN  \A x \in DOMAIN e.before \ DOMAIN e.after : JobIdOf(x) = e.rm_key

(* ------------------------------- C38 ----------------------------------- *)

\* the call of update_circuit has failed: an exception left it, or the process
\* ended in it
Failed(o) == o.thrown # "none" \/ o.crashed

\* C38: an update_circuit that fails leaves circuit, config, sending_to and
\* is_dynamic of the task as they were before the call.
C38_FailedUpdateChangesNothing ==
    (codec.pc = "called" /\ Failed(codec.decoded)) => codec.decoded.task = codec.task

(* ------------------------------- C39 ----------------------------------- *)

\* C39: simulate is called on a batch that holds a task: no round that has
\* simulated did so on an empty quantum_tasks, the executor has not ended in the
\* read of quantum_tasks[0] of an empty batch, and a round in which every message
\* was empty has sent no result.
C39_SimulatesOnlyBatchesWithWork ==
    /\ broker.pc # "crashed"
    /\ \A r \in DOMAIN broker.rounds :
          /\ broker.rounds[r].quantum_tasks # <<>>
          /\ broker.rounds[r].result_str # GarbageResult
    /\ \A r \in RoundsBegun :
          (\A p \in Qpus : Len(broker.sent[p]) >= r /\ broker.sent[p][r] = <<>>)
          => \A p \in Qpus : ResultsIn(p, r) = <<>>

====
